---- MODULE Spec2Model ----
(***************************************************************************)
(* A model of pk11-uri-parser (src/src/lib.rs and its helper modules),     *)
(* built with the "validation" feature enabled.  Text is modelled by TLA+  *)
(* strings: Len, SubSeq and \o act on them as the corresponding &str       *)
(* operations do on ASCII text (one byte per character).  A TLA+ string    *)
(* cannot hold a grave accent, so the messages' grave accents are written  *)
(* as apostrophes; nothing else of a message is changed.                   *)
(*                                                                         *)
(* A TLA+ string holds ASCII only: the one character '~' of the model's    *)
(* texts stands for a decimal digit outside ASCII (U+0663, ARABIC-INDIC    *)
(* DIGIT THREE), counted as one position; no input uses a real tilde.      *)
(*                                                                         *)
(* One behaviour of Spec is one call of 'parse': Init picks the input, and *)
(* the actions follow parse's control flow: the scheme test, one step per  *)
(* path fragment, one step per query fragment, and the final Ok.  The      *)
(* process also has what calls share: the terminal println! writes to and  *)
(* the Lazy statics.  SpecCalls runs two calls of one process, a thread    *)
(* switch between any two steps.                                           *)
(***************************************************************************)
EXTENDS Integers, Sequences, FiniteSets, TLC

VARIABLES
    pk11_uri,   \* the &str handed to parse
    pc,         \* where parse is: "start", "path", "query", "done"
    count,      \* enumerate()'s index of the next fragment of the region
    mapping,    \* the PK11URIMapping under construction
    result,     \* what the call produced: nothing yet, Ok, Err or a panic
    examined,   \* the fragments handed to assign so far, in order
    stdout,     \* the lines println! has written, in order
    debug_assertions,   \* cfg(debug_assertions) of the build
    statics,    \* the Lazy statics that have been initialised
    suspended   \* the locals of the process's other call, if there is one

vars == <<pk11_uri, pc, count, mapping, result, examined,
          stdout, debug_assertions, statics, suspended>>

\* what belongs to the process and not to a call
process == <<stdout, debug_assertions, statics, suspended>>

-----------------------------------------------------------------------------
(* Option<T>: None is the empty tuple, Some(v) the one-element tuple.      *)

None == <<>>

Some(v) == <<v>>

Unwrap(o) == o[1]

-----------------------------------------------------------------------------
(* String primitives of the standard library, as the code uses them.       *)

CharAt(s, i) == SubSeq(s, i, i)

\* &s[a..b] with 0-based a, exclusive b
Slice(s, a, b) == SubSeq(s, a + 1, b)

\* str::get(a..b): None when the range is not inside the string
Get(s, a, b) == IF a <= b /\ b <= Len(s) THEN Some(Slice(s, a, b)) ELSE None

\* a slip: the scheme is looked for anywhere in the input
StartsWith_Anywhere(s, p) ==
    \E i \in 0..(Len(s) - Len(p)) : SubSeq(s, i + 1, i + Len(p)) = p

StartsWith(s, p) == Len(s) >= Len(p) /\ SubSeq(s, 1, Len(p)) = p

\* the 0-based offsets at which 'needle' occurs in 's'
Occurrences(s, needle) ==
    {i \in 0..(Len(s) - Len(needle)) : Slice(s, i, i + Len(needle)) = needle}

SetMin(S) == CHOOSE x \in S : \A y \in S : x <= y

\* str::find: the offset of the first occurrence
Find(s, needle) ==
    LET at == Occurrences(s, needle)
    IN  IF at = {} THEN None ELSE Some(SetMin(at))

Contains(s, c) == Occurrences(s, c) # {}

\* str::replace of every character of the set 'cs' by the text 'r'
RECURSIVE Replace(_, _, _)
Replace(s, cs, r) ==
    LET at == {i \in 1..Len(s) : CharAt(s, i) \in cs}
    IN  IF at = {} THEN s
        ELSE SubSeq(s, 1, SetMin(at) - 1) \o r
                 \o Replace(SubSeq(s, SetMin(at) + 1, Len(s)), cs, r)

\* str::split(delimiter): the fragments, in order; never the empty sequence
RECURSIVE Split(_, _)
Split(s, d) ==
    LET at == Find(s, d)
    IN  IF at = None THEN <<s>>
        ELSE <<Slice(s, 0, Unwrap(at))>>
                 \o Split(Slice(s, Unwrap(at) + 1, Len(s)), d)

\* a slip: the text is split at the last delimiter, as rsplit_once does
SplitOnce_Last(s, d) ==
    LET at == {i \in 0..(Len(s) - 1) : CharAt(s, i + 1) = d}
        last == CHOOSE i \in at : \A j \in at : j <= i
    IN  IF at = {} THEN None
        ELSE Some(<<Slice(s, 0, last), Slice(s, last + 1, Len(s))>>)

\* str::split_once(delimiter): the text before and after the first delimiter
SplitOnce(s, d) ==
    LET at == Find(s, d)
    IN  IF at = None THEN None
        ELSE Some(<<Slice(s, 0, Unwrap(at)), Slice(s, Unwrap(at) + 1, Len(s))>>)

\* char::is_whitespace, for the characters the inputs are drawn from
WhiteSpace == {" ", "\n", "\t", "\r"}

RECURSIVE TrimStart(_)
TrimStart(s) ==
    IF Len(s) > 0 /\ CharAt(s, 1) \in WhiteSpace
    THEN TrimStart(SubSeq(s, 2, Len(s))) ELSE s

RECURSIVE TrimEnd(_)
TrimEnd(s) ==
    IF Len(s) > 0 /\ CharAt(s, Len(s)) \in WhiteSpace
    THEN TrimEnd(SubSeq(s, 1, Len(s) - 1)) ELSE s

\* str::trim
Trim(s) == TrimEnd(TrimStart(s))

\* str::match_indices(delimiter): the offsets of the delimiter, ascending
RECURSIVE MatchIndicesFrom(_, _, _)
MatchIndicesFrom(s, d, from) ==
    IF from >= Len(s) THEN <<>>
    ELSE (IF CharAt(s, from + 1) = d THEN <<from>> ELSE <<>>)
             \o MatchIndicesFrom(s, d, from + 1)

MatchIndices(s, d) == MatchIndicesFrom(s, d, 0)

\* chars().all(pred) for a predicate given as the set of accepted characters
AllCharsIn(s, cs) == \A i \in 1..Len(s) : CharAt(s, i) \in cs

CharSet(s) == {CharAt(s, i) : i \in 1..Len(s)}

\* the stand-in for a decimal digit outside ASCII (U+0663)
NonAsciiDigit == "~"

\* \d of the regex crate, which is Unicode-aware unless (?-u) is given: any
\* character of the general category Nd
Digits == CharSet("0123456789") \cup {NonAsciiDigit}

\* char::is_alphanumeric, for the characters the inputs are drawn from
AlphaNumerics ==
    CharSet("abcdefghijklmnopqrstuvwxyzABCDEFGHIJKLMNOPQRSTUVWXYZ") \cup Digits

-----------------------------------------------------------------------------
(* Result<T, E>                                                            *)

Ok(v) == [ok |-> TRUE, val |-> v]

Err(e) == [ok |-> FALSE, err |-> e]

ValidationErr(violation, help) == [violation |-> violation, help |-> help]

-----------------------------------------------------------------------------
(* The vocabulary.                                                         *)

PKCS11_SCHEME == "pkcs11:"

PKCS11_SCHEME_LEN == Len(PKCS11_SCHEME)

PathNames ==
    {"token", "manufacturer", "serial", "model", "library-manufacturer",
     "library-version", "library-description", "object", "type", "id",
     "slot-description", "slot-manufacturer", "slot-id"}

QueryNames == {"pin-source", "pin-value", "module-name", "module-path"}

ComponentNames(component) ==
    IF component = "path" THEN PathNames ELSE QueryNames

\* a classified attribute: a standard name, or VAttr with the vendor's name
StdAttr(name) == [vattr |-> FALSE, name |-> name]

VAttr(name) == [vattr |-> TRUE, name |-> name]

VendorNameChars == AlphaNumerics \cup {"-", "_"}

\* a slip: the two naming-collision tests are left out
VendorAttributeTryFrom_NoCollision(vendor_attr) ==
    IF vendor_attr = "" THEN
        Err(ValidationErr("Invalid component: Missing attribute name.",
            "The attribute name may not be blank. Refer to the RFC7512 specification for valid attributes."))
    ELSE IF \E i \in 1..Len(vendor_attr) :
                SubSeq(vendor_attr, i, i) \notin AlphaNumerics \cup {"-", "_"} THEN
        Err(ValidationErr("Invalid vendor-specific component name: expected '1*pk11-v-attr-nm-char'.",
            "'" \o vendor_attr \o "' violated vendor-specific attribute name characters consisting solely of alphanumeric, '-', or '_'."))
    ELSE Ok(vendor_attr)

\* VendorAttribute::try_from
VendorAttributeTryFrom(vendor_attr) ==
    IF vendor_attr = "" THEN
        Err(ValidationErr("Invalid component: Missing attribute name.",
            "The attribute name may not be blank. Refer to the RFC7512 specification for valid attributes."))
    ELSE IF vendor_attr \in PathNames THEN
        Err(ValidationErr("Naming collision with standard path component.",
            "Move this attribute and its value to the PKCS#11 URI path."))
    ELSE IF vendor_attr \in QueryNames THEN
        Err(ValidationErr("Naming collision with standard query component.",
            "Move '" \o vendor_attr \o "' and its value to the PKCS#11 URI query."))
    ELSE IF ~AllCharsIn(vendor_attr, VendorNameChars) THEN
        Err(ValidationErr("Invalid vendor-specific component name: expected '1*pk11-v-attr-nm-char'.",
            "'" \o vendor_attr \o "' violated vendor-specific attribute name characters consisting solely of alphanumeric, '-', or '_'."))
    ELSE Ok(vendor_attr)

\* PK11Attribute::try_from, as pk11_attributes! expands it for a component
PK11AttributeTryFrom(component, value) ==
    LET vendor == VendorAttributeTryFrom(value)
    IN  IF value \in ComponentNames(component) THEN Ok(StdAttr(value))
        ELSE IF vendor.ok THEN Ok(VAttr(vendor.val))
        ELSE vendor

-----------------------------------------------------------------------------
(* Value validation.                                                       *)

SpaceViolation ==
    "Invalid component value: Appendix A of [RFC3986] specifies component values may not contain empty spaces."

HashViolation ==
    "Invalid component value: The '#' delimiter must always be percent-encoded."

SlashViolation ==
    "Invalid 'pk11-pattr': The general '/' delimiter must always be percent-encoded in a path component."

TypeViolation ==
    "Invalid 'pk11-pattr': 'pk11-type' = '\"type\" \"=\" ( \"public\" / \"private\" / \"cert\" / \"secret-key\" / \"data\" )'."

LibraryVersionViolation ==
    "Invalid 'pk11-pattr': 'pk11-lib-ver' = '\"library-version\" \"=\" 1*DIGIT [ \".\" 1*DIGIT ]'."

SlotIdViolation ==
    "Invalid 'pk11-pattr': 'pk11-slot-id' = '\"slot-id\" \"=\" 1*DIGIT'."

ReplaceHelp(value, fixed) == "Replace '" \o value \o "' with '" \o fixed \o "'."

\* a slip: the '#' test is left out
common_validation_SpaceOnly(value) ==
    IF Contains(value, " ") THEN
        Some(ValidationErr(SpaceViolation,
                           ReplaceHelp(value, Replace(value, {" "}, "%20"))))
    ELSE None

\* common_validation: Some(error) or None
common_validation(value) ==
    IF Contains(value, " ") THEN
        Some(ValidationErr(SpaceViolation,
                           ReplaceHelp(value, Replace(value, {" "}, "%20"))))
    ELSE IF Contains(value, "#") THEN
        Some(ValidationErr(HashViolation,
                           ReplaceHelp(value, Replace(value, {"#"}, "%23"))))
    ELSE None

\* SLOT_ID_REGEX: ^\d+$
SLOT_ID_REGEX(value) == Len(value) >= 1 /\ AllCharsIn(value, Digits)

\* LIBRARY_VERSION_REGEX: ^\d+(\.\d+){0,1}$
LIBRARY_VERSION_REGEX(value) ==
    \/ SLOT_ID_REGEX(value)
    \/ \E i \in 2..(Len(value) - 1) :
          /\ CharAt(value, i) = "."
          /\ AllCharsIn(SubSeq(value, 1, i - 1), Digits)
          /\ AllCharsIn(SubSeq(value, i + 1, Len(value)), Digits)

\* a slip: the type names are compared without regard to case
TypeValues_AnyCase ==
    {"public", "private", "cert", "secret-key", "data",
     "Public", "Private", "Cert", "Secret-Key", "Data",
     "PUBLIC", "PRIVATE", "CERT", "SECRET-KEY", "DATA"}

TypeValues == {"public", "private", "cert", "secret-key", "data"}

\* a slip: the common rule is applied to every path attribute, the three
\* with a rule of their own included
PValidate_CommonForAll(attr, value) ==
    IF common_validation(value) # None
    THEN Err(Unwrap(common_validation(value)))
    ELSE
    IF attr.vattr \/ attr.name \notin {"type", "library-version", "slot-id"} THEN
        LET validation_err == common_validation(value)
        IN
        IF validation_err # None
        THEN Err(Unwrap(validation_err))
        ELSE IF Contains(value, "/")
        THEN Err(ValidationErr(SlashViolation,
                               ReplaceHelp(value, Replace(value, {"/"}, "%2F"))))
        ELSE Ok(<<>>)
    ELSE IF attr.name = "type" THEN
        IF value \notin TypeValues
        THEN Err(ValidationErr(TypeViolation,
                 "Replace '" \o value \o "' value with one of 'public', 'private', 'cert', 'secret-key', or 'data'."))
        ELSE Ok(<<>>)
    ELSE IF attr.name = "library-version" THEN
        IF ~LIBRARY_VERSION_REGEX(value)
        THEN Err(ValidationErr(LibraryVersionViolation,
                 "The 'library-version' attribute represents the major and minor version decimal number of the library and its format is 'M.N'. The major version is required."))
        ELSE Ok(<<>>)
    ELSE
        IF ~SLOT_ID_REGEX(value)
        THEN Err(ValidationErr(SlotIdViolation,
                               "The 'slot-id' value may only be numeric."))
        ELSE Ok(<<>>)

\* impl Validation for PK11PAttr: Ok(()) or Err(error)
PValidate(attr, value) ==
    IF attr.vattr \/ attr.name \notin {"type", "library-version", "slot-id"} THEN
        LET validation_err == common_validation(value)
        IN
        IF validation_err # None
        THEN Err(Unwrap(validation_err))
        ELSE IF Contains(value, "/")
        THEN Err(ValidationErr(SlashViolation,
                               ReplaceHelp(value, Replace(value, {"/"}, "%2F"))))
        ELSE Ok(<<>>)
    ELSE IF attr.name = "type" THEN
        IF value \notin TypeValues
        THEN Err(ValidationErr(TypeViolation,
                 "Replace '" \o value \o "' value with one of 'public', 'private', 'cert', 'secret-key', or 'data'."))
        ELSE Ok(<<>>)
    ELSE IF attr.name = "library-version" THEN
        IF ~LIBRARY_VERSION_REGEX(value)
        THEN Err(ValidationErr(LibraryVersionViolation,
                 "The 'library-version' attribute represents the major and minor version decimal number of the library and its format is 'M.N'. The major version is required."))
        ELSE Ok(<<>>)
    ELSE
        IF ~SLOT_ID_REGEX(value)
        THEN Err(ValidationErr(SlotIdViolation,
                               "The 'slot-id' value may only be numeric."))
        ELSE Ok(<<>>)

\* a slip: the query's values are held to the path's rules
QValidate_AsPath(attr, value) == PValidate(VAttr(attr.name), value)

\* PK11QAttr::validate
QValidate(attr, value) ==
    LET validation_err == common_validation(value)
    IN  IF validation_err # None THEN Err(Unwrap(validation_err)) ELSE Ok(<<>>)

Validate(component, attr, value) ==
    IF component = "path" THEN PValidate(attr, value) ELSE QValidate(attr, value)

MalformedViolation == "Malformed component."

\* PK11Attr::try_from: split at the first '=', trim, classify, validate
PK11AttrTryFrom(component, pk11_attr) ==
    LET pair      == SplitOnce(pk11_attr, "=")
        attribute == Trim(Unwrap(pair)[1])
        value     == Trim(Unwrap(pair)[2])
        attr      == PK11AttributeTryFrom(component, attribute)
        valid     == Validate(component, attr.val, value)
    IN  IF pair = None THEN
            Err(ValidationErr(MalformedViolation,
                "Please refer to RFC7512 for acceptable path|query attribute values."))
        ELSE IF ~attr.ok THEN attr
        ELSE IF ~valid.ok THEN valid
        ELSE Ok([attr |-> attr.val, value |-> value])

-----------------------------------------------------------------------------
(* The mapping and the two assign methods.                                 *)

\* PK11URIMapping::default(): every slot None, no vendor entry
DefaultMapping ==
    [std    |-> [n \in PathNames \cup QueryNames |-> None],
     vendor |-> [n \in {} |-> <<>>]]

SetStd(m, name, value) ==
    [m EXCEPT !.std = [m.std EXCEPT ![name] = Some(value)]]

\* HashMap::insert(name, values)
VendorInsert(m, name, values) ==
    [m EXCEPT !.vendor =
        [n \in DOMAIN m.vendor \cup {name} |->
            IF n = name THEN values ELSE m.vendor[n]]]

\* a slip: the query's vendor value replaces the list, as insert does
VendorPush_Replaces(m, name, value) == VendorInsert(m, name, <<value>>)

\* a slip: the query's vendor value is put in front of the list
VendorPush_Front(m, name, value) ==
    VendorInsert(m, name,
        IF name \in DOMAIN m.vendor THEN <<value>> \o m.vendor[name]
        ELSE <<value>>)

\* HashMap::entry(name).or_default().push(value)
VendorPush(m, name, value) ==
    VendorInsert(m, name,
        IF name \in DOMAIN m.vendor THEN Append(m.vendor[name], value)
        ELSE <<value>>)

\* a slip: the assign of a build without validation, which overwrites
PAssign_Overwrites(attr, value, m) ==
    IF ~attr.vattr THEN Ok(SetStd(m, attr.name, value))
    ELSE Ok(VendorInsert(m, attr.name, <<value>>))

\* a slip: a slot that holds the empty string is taken for an empty slot
PAssign_EmptyIsAbsent(attr, value, m) ==
    IF ~attr.vattr THEN
        IF m.std[attr.name] \in {None, Some("")}
        THEN Ok(SetStd(m, attr.name, value))
        ELSE Err(ValidationErr(
                 "Duplicate 'pk11-pattr' standard name: \"" \o attr.name \o "\".",
                 "A PKCS #11 URI must not contain duplicate attributes of the same name in the URI path component."))
    ELSE
        IF attr.name \notin DOMAIN m.vendor \/ m.vendor[attr.name] = <<"">>
        THEN Ok(VendorInsert(m, attr.name, <<value>>))
        ELSE Err(ValidationErr(
                 "Duplicate 'pk11-v-pattr' vendor-specific name: \"" \o attr.name \o "\".",
                 "A PKCS #11 URI must not contain duplicate vendor attributes of the same name in the URI path component."))

\* PK11PAttr::assign
PAssign(attr, value, m) ==
    IF ~attr.vattr THEN
        IF m.std[attr.name] = None THEN Ok(SetStd(m, attr.name, value))
        ELSE Err(ValidationErr(
                 "Duplicate 'pk11-pattr' standard name: \"" \o attr.name \o "\".",
                 "A PKCS #11 URI must not contain duplicate attributes of the same name in the URI path component."))
    ELSE
        IF attr.name \notin DOMAIN m.vendor
        THEN Ok(VendorInsert(m, attr.name, <<value>>))
        ELSE Err(ValidationErr(
                 "Duplicate 'pk11-v-pattr' vendor-specific name: \"" \o attr.name \o "\".",
                 "A PKCS #11 URI must not contain duplicate vendor attributes of the same name in the URI path component."))

\* PK11QAttr::assign
QAssign(attr, value, m) ==
    IF ~attr.vattr THEN
        IF m.std[attr.name] = None THEN Ok(SetStd(m, attr.name, value))
        ELSE Err(ValidationErr(
                 "Duplicate 'pk11-qattr' standard name: \"" \o attr.name \o "\".",
                 "A PKCS #11 URI must not contain duplicate standard attributes of the same name in the URI query component."))
    ELSE Ok(VendorPush(m, attr.name, value))

\* a slip: a repeated name is refused before the value is validated
Assign_DuplicateFirst(component, pk11_attr, m) ==
    LET parsed   == PK11AttrTryFrom(component, pk11_attr)
        pair     == SplitOnce(pk11_attr, "=")
        attr     == PK11AttributeTryFrom(component, Trim(Unwrap(pair)[1]))
        value    == Trim(Unwrap(pair)[2])
        assigned == IF component = "path" THEN PAssign(attr.val, value, m)
                    ELSE QAssign(attr.val, value, m)
    IN  IF pair = None \/ ~attr.ok THEN parsed
        ELSE IF ~assigned.ok THEN assigned
        ELSE IF ~parsed.ok THEN parsed
        ELSE assigned

\* pk11_pattr::assign / pk11_qattr::assign: Ok(the mapping after) or Err
Assign(component, pk11_attr, m) ==
    LET parsed == PK11AttrTryFrom(component, pk11_attr)
    IN  IF ~parsed.ok THEN parsed
        ELSE IF component = "path"
             THEN PAssign(parsed.val.attr, parsed.val.value, m)
             ELSE QAssign(parsed.val.attr, parsed.val.value, m)

-----------------------------------------------------------------------------
(* What a call does to the process: the warnings of a debug build and the  *)
(* first use of a Lazy static.  (The warnings of the "debug_warnings"      *)
(* feature are not modelled: with it a debug build does not compile, the   *)
(* query module calling a maybe_warn it does not have, and other builds    *)
(* leave them out.)                                                        *)

\* VendorAttribute::try_from, its println!: the deprecated "x-" prefix
VendorWarnings(vendor_attr, debug) ==
    IF debug /\ StartsWith(vendor_attr, "x-")
    THEN <<"pkcs11 warning: per RFC7512, the previously used convention of starting vendor attributes with an \"x-\" prefix is now deprecated.  Identified: '" \o vendor_attr \o "'.">>
    ELSE <<>>

\* what one call of assign prints: the name is classified before the value
\* is validated, so the line is written whether or not the fragment fails
AttrWarnings(component, pk11_attr, debug) ==
    LET pair      == SplitOnce(pk11_attr, "=")
        attribute == Trim(Unwrap(pair)[1])
        attr      == PK11AttributeTryFrom(component, attribute)
    IN  IF pair = None THEN <<>>
        ELSE IF ~attr.ok THEN <<>>
        ELSE IF ~attr.val.vattr THEN <<>>
        ELSE VendorWarnings(attribute, debug)

\* lib.rs 361-378, inside the test for a '?': the two redundant pairs
PairWarnings(uri, m, debug) ==
    IF ~debug \/ Find(uri, "?") = None THEN <<>>
    ELSE (IF m.std["module-name"] # None /\ m.std["module-path"] # None
          THEN <<"pkcs11 warning: using both 'module-name' and 'module-path' SHOULD be avoided. Attribute 'module-name' is preferred due to its system-independent nature.">>
          ELSE <<>>)
         \o
         (IF m.std["pin-source"] # None /\ m.std["pin-value"] # None
          THEN <<"pkcs11 warning: a PKCS#11 URI containing both \"pin-source\" and \"pin-value\" query attributes SHOULD be refused as invalid.">>
          ELSE <<>>)

\* the Lazy statics a call of assign dereferences: a regex is compiled on
\* its first use and kept for the life of the process
Forced(component, pk11_attr) ==
    LET pair      == SplitOnce(pk11_attr, "=")
        attribute == Trim(Unwrap(pair)[1])
    IN  IF component # "path" \/ pair = None THEN {}
        ELSE IF attribute = "library-version" THEN {"LIBRARY_VERSION_REGEX"}
        ELSE IF attribute = "slot-id" THEN {"SLOT_ID_REGEX"}
        ELSE {}

-----------------------------------------------------------------------------
(* usize arithmetic.  A build with overflow checks (the debug profile)     *)
(* panics on overflow; a build without them (the release profile) wraps.   *)
(* The word is 16 bits wide here, TLC's integers having 32: every length   *)
(* of the model is far below it, and a wrapped difference followed by an   *)
(* addition gives the same offsets for any wider word.                     *)

UsizeModulus == 2 ^ 16

UsizeSub(a, b, overflow_checks) ==
    IF a >= b THEN Ok(a - b)
    ELSE IF overflow_checks THEN Err("attempt to subtract with overflow")
    ELSE Ok(a - b + UsizeModulus)

UsizeAdd(a, b, overflow_checks) ==
    IF a + b < UsizeModulus THEN Ok(a + b)
    ELSE IF overflow_checks THEN Err("attempt to add with overflow")
    ELSE Ok(a + b - UsizeModulus)

\* Option::unwrap, which panics on None
UnwrapOrPanic(o) ==
    IF o = None THEN Err("called 'Option::unwrap()' on a 'None' value")
    ELSE Ok(Unwrap(o))

-----------------------------------------------------------------------------
(* parse and its helpers.                                                  *)

\* a slip: only the first newline or tab is removed
tidy_FirstOnly(maybe_messy) ==
    LET at == {i \in 1..Len(maybe_messy) :
                  CharAt(maybe_messy, i) \in {"\n", "\t"}}
    IN  IF at = {} THEN maybe_messy
        ELSE SubSeq(maybe_messy, 1, SetMin(at) - 1)
                 \o SubSeq(maybe_messy, SetMin(at) + 1, Len(maybe_messy))

\* tidy: every newline and tab removed
tidy(maybe_messy) == Replace(maybe_messy, {"\n", "\t"}, "")

\* a slip: the first delimiter of the region is taken, whatever the number
\* of the empty fragment
find_empty_attr_index_First(tidy_attr, split_count, delimiter, overflow_checks) ==
    LET indices == MatchIndices(tidy_attr, delimiter)
        fallback == UsizeSub(Len(tidy_attr), 1, overflow_checks)
    IN  IF ~fallback.ok THEN fallback
        ELSE IF 0 < Len(indices)
        THEN Ok(indices[1])
        ELSE Ok(fallback.val)

\* find_empty_attr_index: unwrap_or's argument, len - 1, is computed before
\* the n-th delimiter is looked up, whether or not it is then used
find_empty_attr_index(tidy_attr, split_count, delimiter, overflow_checks) ==
    LET indices == MatchIndices(tidy_attr, delimiter)
        fallback == UsizeSub(Len(tidy_attr), 1, overflow_checks)
    IN  IF ~fallback.ok THEN fallback
        ELSE IF split_count < Len(indices)
        THEN Ok(indices[split_count + 1])
        ELSE Ok(fallback.val)

\* the offset of the failing fragment inside its tidied region
LocateAttr(tidy_region, tidy_attr, split_count, delimiter, overflow_checks) ==
    IF tidy_attr # ""
    THEN UnwrapOrPanic(Find(tidy_region, tidy_attr))
    ELSE find_empty_attr_index(tidy_region, split_count, delimiter,
                               overflow_checks)

\* a slip: the scheme's length is not added to the offset
PathErrorStart_NoScheme(tidy_pk11_path, tidy_pk11_pattr, count_, overflow_checks) ==
    LocateAttr(tidy_pk11_path, tidy_pk11_pattr, count_, ";", overflow_checks)

\* error_start of the path closure: the offset + PKCS11_SCHEME_LEN
PathErrorStart(tidy_pk11_path, tidy_pk11_pattr, count_, overflow_checks) ==
    LET at == LocateAttr(tidy_pk11_path, tidy_pk11_pattr, count_, ";",
                         overflow_checks)
    IN  IF ~at.ok THEN at
        ELSE UsizeAdd(at.val, PKCS11_SCHEME_LEN, overflow_checks)

\* error_start of the query closure: the offset + tidy_pk11_uri.find('?') + 1
QueryErrorStart(tidy_pk11_uri, tidy_pk11_query, tidy_pk11_qattr, count_, overflow_checks) ==
    LET at  == LocateAttr(tidy_pk11_query, tidy_pk11_qattr, count_, "&",
                          overflow_checks)
        q   == UnwrapOrPanic(Find(tidy_pk11_uri, "?"))
        sum == UsizeAdd(at.val, q.val, overflow_checks)
    IN  IF ~at.ok THEN at
        ELSE IF ~q.ok THEN q
        ELSE IF ~sum.ok THEN sum
        ELSE UsizeAdd(sum.val, 1, overflow_checks)

Delimiter(component) == IF component = "path" THEN ";" ELSE "&"

ErrorStart(component, uri, region, tidy_attr, count_, overflow_checks) ==
    IF component = "path"
    THEN PathErrorStart(tidy(region), tidy_attr, count_, overflow_checks)
    ELSE QueryErrorStart(tidy(uri), tidy(region), tidy_attr, count_,
                         overflow_checks)

\* what a call of parse produces; Pending while it runs
Pending == [kind |-> "Pending"]

ParseOk(m) == [kind |-> "Ok", mapping |-> m]

PK11URIError(uri, error_span, violation, help) ==
    [kind |-> "Err", pk11_uri |-> uri, error_span |-> error_span,
     violation |-> violation, help |-> help]

Panic(message) == [kind |-> "Panic", message |-> message]

\* the map_err closures of parse: the positioned error of a failed fragment
MapErr(component, uri, region, attr, count_, validation_err, overflow_checks) ==
    LET tidy_attr == tidy(attr)
        start == ErrorStart(component, uri, region, tidy_attr, count_,
                            overflow_checks)
        end   == IF ~start.ok THEN start
                 ELSE UsizeAdd(start.val, Len(tidy_attr), overflow_checks)
        empty == tidy_attr = ""
    IN  IF ~start.ok THEN Panic(start.err)
        ELSE IF ~end.ok THEN Panic(end.err)
        ELSE PK11URIError(
                 tidy(uri),
                 <<start.val, end.val>>,
                 IF ~empty THEN validation_err.violation
                 ELSE "Misplaced " \o component \o " delimiter.",
                 IF ~empty THEN validation_err.help
                 ELSE "Remove the misplaced '" \o Delimiter(component)
                          \o "' delimiter.")

SchemeViolation ==
    "Invalid 'pk11-URI': expected '\"pkcs11:\" pk11-path [ \"?\" pk11-query ]'."

\* a slip: the scheme error carries the input as it was given
SchemeError_Raw(uri) ==
    PK11URIError(uri, <<0, 0>>, SchemeViolation,
                 "PKCS#11 URI must start with 'pkcs11:'.")

SchemeError(uri) ==
    PK11URIError(tidy(uri), <<0, 0>>, SchemeViolation,
                 "PKCS#11 URI must start with 'pkcs11:'.")

\* pk11_uri.find('?')
query_component_index(uri) == Find(uri, "?")

\* a slip: the test for an empty region is left out
NonEmpty_Keeps(o) == o

NonEmpty(o) == IF o # None /\ Unwrap(o) # "" THEN o ELSE None

\* the path region: Some(text) when there is a non-empty one
pk11_path(uri) ==
    NonEmpty(Get(uri, PKCS11_SCHEME_LEN,
                 IF query_component_index(uri) = None THEN Len(uri)
                 ELSE Unwrap(query_component_index(uri))))

\* the query region: Some(text) when a '?' is followed by anything
pk11_query(uri) ==
    IF query_component_index(uri) = None THEN None
    ELSE NonEmpty(Get(uri, Unwrap(query_component_index(uri)) + 1, Len(uri)))

Region(component, uri) ==
    IF component = "path" THEN pk11_path(uri) ELSE pk11_query(uri)

\* the fragments split() yields for a region; none when the region is skipped
Attrs(component, uri) ==
    IF Region(component, uri) = None THEN <<>>
    ELSE Split(Unwrap(Region(component, uri)), Delimiter(component))

RECURSIVE try_for_each(_, _, _, _, _)
\* try_for_each over a region's fragments from number `k` on: Ok(the mapping
\* after the last) or Err(the error of the first that fails)
try_for_each(component, uri, k, m, overflow_checks) ==
    LET attrs   == Attrs(component, uri)
        outcome == Assign(component, attrs[k + 1], m)
    IN  IF k >= Len(attrs) THEN Ok(m)
        ELSE IF outcome.ok
        THEN try_for_each(component, uri, k + 1, outcome.val, overflow_checks)
        ELSE Err(MapErr(component, uri, Unwrap(Region(component, uri)),
                        attrs[k + 1], k, outcome.err, overflow_checks))

\* parse as a function of its input (and of the build's overflow checks)
parse(uri, overflow_checks) ==
    IF ~StartsWith(uri, PKCS11_SCHEME) THEN SchemeError(uri)
    ELSE LET path == try_for_each("path", uri, 0, DefaultMapping,
                                  overflow_checks)
             query == try_for_each("query", uri, 0, path.val, overflow_checks)
         IN  IF ~path.ok THEN path.err
             ELSE IF ~query.ok THEN query.err
             ELSE ParseOk(query.val)

-----------------------------------------------------------------------------
(* The inputs.                                                             *)

\* the most fragments, path and query together, of a composed input
MaxAttrs == 3

SeqsUpTo(S, n) == UNION {[1..k -> S] : k \in 0..n}

RECURSIVE Join(_, _)
Join(parts, d) ==
    IF Len(parts) = 0 THEN ""
    ELSE IF Len(parts) = 1 THEN parts[1]
    ELSE parts[1] \o d \o Join(Tail(parts), d)

PathFragments == {"token=a", "\n token=b\t", "v=a", "a", "", "\n"}

QueryFragments == {"pin-value=1", "v=a", "\n\tv=b", "a", "", "\n"}

\* nothing, or a '?' and up to n query fragments
QueryParts(n) ==
    {""} \cup {"?" \o Join(q, "&") : q \in SeqsUpTo(QueryFragments, n)}

\* the scheme, then path and query fragments, at most MaxAttrs in all
ComposedInputs ==
    UNION {{PKCS11_SCHEME \o Join(p, ";") \o q : q \in QueryParts(MaxAttrs - Len(p))} :
              p \in SeqsUpTo(PathFragments, MaxAttrs)}

AttrNames == PathNames \cup QueryNames \cup {"v", "x-v", "", "a.b", "to\nken"}

AttrValues ==
    {"", "a", "a b", " a ", "a#b", "a b#", "a/b", "a\nb", "a=b", "public",
     "pub\nlic", "1", "1.0", "1."}

\* one attribute, of every name and value, in either component
SingleAttrInputs ==
    {PKCS11_SCHEME \o c \o n \o "=" \o v :
        c \in {"", "?"}, n \in AttrNames, v \in AttrValues}

\* inputs that do not begin with the scheme
NoSchemeInputs ==
    {"", "pkcs11", "pkcs11;token=a", "PKCS11:token=a", "Pkcs11:",
     "\npkcs11:token=a", " pkcs11:", "pk\ncs11:token=a", "token=a;\nv=a",
     "pkcs1:?v=a", "http://pkcs11:token=a b"}

\* the examples of the crate documentation and of the test suite
DocInputs ==
    {"pkcs11:object=Private key for Card Authentication;pin-value=123456",
     "pkcs11:object=Private%20key%20for%20Card%20Authentication;pin-value=123456",
     "pkcs11:object=Private%20key%20for%20Card%20Authenciation?pin-value=123456",
     "pkcs11:object=my-key;type=private?pin-source=file:/etc/token",
     "pkcs11:token=my-token;\n            object=my-certificate;\n            type=cert;\n            vendor-aaa=value-a\n            ?pin-source=file:/etc/token_pin\n            &vendor-bbb=value-b",
     "pkcs11:token=T;\n            id=%69%95;\n            serial=\n            ?pin-source=file:/etc/token_pin",
     "pkcs11:v-attr=val1?v-attr=val2&v-attr=val3",
     "pkcs11:vendor-attribute=hello?vendor-attribute=world",
     "pkcs11:token=foo;token=bar",
     "pkcs11:token=foo;token=foo",
     "pkcs11:token=abc;abc",
     "pkcs11:x-muppet=cookie<^^>monster!"}

Inputs == ComposedInputs \cup SingleAttrInputs \cup NoSchemeInputs \cup DocInputs

\* values for the rules on a value: '/', the type names, versions, numbers
RuleValues ==
    {"", "a/b", "/", "a /b", "a#/b", "file:/etc/token", " /a\t",
     "public", "private", "cert", "secret-key", "data",
     "Public", "DATA", "secret_key", "publics", " public\t", "pub lic",
     "1", "10", "007", "1.0", "1.01", "1.", ".1", "1.2.3", "1..0", ".",
     "abc", "-1", "+1", "1a", " 1 ", "1 2", "1\n2", "1/2", "1#",
     "~", "1~", "1.~", "~.1"}

\* one attribute of every standard name, or a vendor one, with such a value,
\* in either component; the same twice; and inputs without the scheme
RuleInputs ==
    {PKCS11_SCHEME \o c \o n \o "=" \o v :
        c \in {"", "?"}, n \in PathNames \cup QueryNames \cup {"v"},
        v \in RuleValues}
    \cup {"pkcs11:type=data;type=data", "pkcs11:slot-id=1;slot-id=x",
          "pkcs11:library-version=1.0;library-version=1.0",
          "pkcs11:?pin-source=a/b&pin-source=a/b",
          "pkcs11:token=a;token=a/b", "pkcs11:v=a/b?v=a/b&v=a/b",
          "pkcs11:type=public?module-path=/usr/lib/p11.so",
          "pkcs11:to\nken=foo", "pkcs11:token=ab\ncd",
          "pkcs11:token=a;\n\tobject=b?\n\tpin-value=1"}
    \cup {"type=public", "PKCS11:slot-id=1"}

\* fragments that meet an advisory rule: an "x-" vendor name, characters
\* that SHOULD be percent-encoded, a module name that is a file name; some
\* of them break a fatal rule as well
AdvisoryPathFragments == {"x-v=a", "token=a<b>", "x-v=a b", "id=a%zz"}

AdvisoryQueryFragments ==
    {"pin-source=file:/etc/pin", "pin-value=1", "module-name=libp11.so",
     "module-path=/usr/lib/p11.so", "x-v=%zz", "x-v=a|b", "pin-value=a b"}

\* up to one such path fragment and two query fragments, so that either
\* redundant pair can be there; all of them at once; one without the scheme
AdvisoryInputs ==
    {PKCS11_SCHEME \o Join(p, ";") \o q :
        p \in SeqsUpTo(AdvisoryPathFragments, 1),
        q \in {""} \cup {"?" \o Join(qs, "&") :
                             qs \in SeqsUpTo(AdvisoryQueryFragments, 2)}}
    \cup {"pkcs11:x-v=a;x-w=b?pin-source=file:/etc/pin&pin-value=1&module-name=libp11.so&module-path=/usr/lib/p11.so&x-v=a|b",
          "pkcs11:x-muppet=cookie<^^>monster!",
          "x-v=a?pin-source=a&pin-value=1"}

\* inputs for two calls of one process: they share names and differ in
\* values, succeed and fail, and use both Lazy statics
CallInputs ==
    {"pkcs11:token=a;v=1?v=2&pin-value=3",
     "pkcs11:token=b;slot-id=7?v=9",
     "pkcs11:token=a;token=c",
     "pkcs11:library-version=1.0?v=2&v=2",
     "pkcs11:x-v=a?pin-value=x&pin-value=y",
     "pkcs11:\n",
     "pkcs11:",
     "token=a"}

-----------------------------------------------------------------------------
(* The state machine: one call of parse.                                   *)

Init ==
    /\ pk11_uri \in Inputs
    /\ pc = "start"
    /\ count = 0
    /\ mapping = None
    /\ result = Pending
    /\ examined = <<>>
    /\ stdout = <<>>
    /\ debug_assertions = TRUE
    /\ statics = {}
    /\ suspended = None

\* lib.rs 268-277: the input does not start with the scheme
RejectScheme ==
    /\ pc = "start"
    /\ ~StartsWith(pk11_uri, PKCS11_SCHEME)
    /\ result' = SchemeError(pk11_uri)
    /\ pc' = "done"
    /\ UNCHANGED <<pk11_uri, count, mapping, examined>>
    /\ UNCHANGED process

\* a slip: one mapping is kept by the process and handed to every call
Begin_SharedMapping ==
    /\ pc = "start"
    /\ StartsWith(pk11_uri, PKCS11_SCHEME)
    /\ mapping' = IF suspended # None /\ Unwrap(suspended).mapping # None
                  THEN Unwrap(suspended).mapping
                  ELSE DefaultMapping
    /\ pc' = "path"
    /\ count' = 0
    /\ UNCHANGED <<pk11_uri, result, examined>>
    /\ UNCHANGED process

\* lib.rs 281-283: the default mapping; the path comes first
Begin ==
    /\ pc = "start"
    /\ StartsWith(pk11_uri, PKCS11_SCHEME)
    /\ mapping' = DefaultMapping
    /\ pc' = "path"
    /\ count' = 0
    /\ UNCHANGED <<pk11_uri, result, examined>>
    /\ UNCHANGED process

\* a slip: a failed fragment is reported but the iteration goes on
AssignAttr_KeepsGoing(component) ==
    /\ pc = component
    /\ LET attrs   == Attrs(component, pk11_uri)
           attr    == attrs[count + 1]
           outcome == Assign(component, attr, mapping)
       IN  /\ count < Len(attrs)
           /\ examined' = Append(examined,
                  [component |-> component, count |-> count, attr |-> attr,
                   ok |-> outcome.ok])
           /\ count' = count + 1
           /\ IF outcome.ok
              THEN mapping' = outcome.val /\ UNCHANGED result
              ELSE /\ \E overflow_checks \in BOOLEAN :
                          result' = MapErr(component, pk11_uri,
                                           Unwrap(Region(component, pk11_uri)),
                                           attr, count, outcome.err,
                                           overflow_checks)
                   /\ UNCHANGED mapping
           /\ stdout' = stdout \o AttrWarnings(component, attr, debug_assertions)
           /\ statics' = statics \cup Forced(component, attr)
    /\ UNCHANGED <<pk11_uri, pc, debug_assertions, suspended>>

\* one turn of try_for_each over a region's fragments: assign, and on its
\* failure the map_err closure and the `?` that leaves parse
AssignAttr(component) ==
    /\ pc = component
    /\ LET attrs   == Attrs(component, pk11_uri)
           attr    == attrs[count + 1]
           outcome == Assign(component, attr, mapping)
       IN  /\ count < Len(attrs)
           /\ examined' = Append(examined,
                  [component |-> component, count |-> count, attr |-> attr,
                   ok |-> outcome.ok])
           /\ IF outcome.ok
              THEN /\ mapping' = outcome.val
                   /\ count' = count + 1
                   /\ UNCHANGED <<pc, result>>
              ELSE /\ \E overflow_checks \in BOOLEAN :
                          result' = MapErr(component, pk11_uri,
                                           Unwrap(Region(component, pk11_uri)),
                                           attr, count, outcome.err,
                                           overflow_checks)
                   /\ pc' = "done"
                   /\ UNCHANGED <<mapping, count>>
           /\ stdout' = stdout \o AttrWarnings(component, attr, debug_assertions)
           /\ statics' = statics \cup Forced(component, attr)
    /\ UNCHANGED <<pk11_uri, debug_assertions, suspended>>

PathAttr == AssignAttr("path")

QueryAttr == AssignAttr("query")

\* lib.rs 319-322: the path is done (or there was none); the query is next
PathDone ==
    /\ pc = "path"
    /\ count >= Len(Attrs("path", pk11_uri))
    /\ pc' = "query"
    /\ count' = 0
    /\ UNCHANGED <<pk11_uri, mapping, result, examined>>
    /\ UNCHANGED process

\* a slip: an input with both pin-source and pin-value is refused, as the
\* RFC says it SHOULD be
Return_RefusesPinPair ==
    /\ pc = "query"
    /\ count >= Len(Attrs("query", pk11_uri))
    /\ stdout' = stdout \o PairWarnings(pk11_uri, mapping, debug_assertions)
    /\ result' =
           IF mapping.std["pin-source"] # None /\ mapping.std["pin-value"] # None
           THEN PK11URIError(tidy(pk11_uri), <<0, 0>>,
                             "Both \"pin-source\" and \"pin-value\".",
                             "Remove one of them.")
           ELSE ParseOk(mapping)
    /\ pc' = "done"
    /\ UNCHANGED <<pk11_uri, count, mapping, examined>>
    /\ UNCHANGED <<debug_assertions, statics, suspended>>

\* lib.rs 359-381: the query is done (or there was none): the warnings of
\* a debug build, then Ok(mapping)
Return ==
    /\ pc = "query"
    /\ count >= Len(Attrs("query", pk11_uri))
    /\ stdout' = stdout \o PairWarnings(pk11_uri, mapping, debug_assertions)
    /\ result' = ParseOk(mapping)
    /\ pc' = "done"
    /\ UNCHANGED <<pk11_uri, count, mapping, examined>>
    /\ UNCHANGED <<debug_assertions, statics, suspended>>

Next == RejectScheme \/ Begin \/ PathAttr \/ PathDone \/ QueryAttr \/ Return

Spec == Init /\ [][Next]_vars

\* one call of parse on an input that puts a rule on a value to the test
InitRules ==
    /\ pk11_uri \in RuleInputs
    /\ pc = "start"
    /\ count = 0
    /\ mapping = None
    /\ result = Pending
    /\ examined = <<>>
    /\ stdout = <<>>
    /\ debug_assertions = TRUE
    /\ statics = {}
    /\ suspended = None

SpecRules == InitRules /\ [][Next]_vars

\* one call of parse, in a build with or without debug assertions, on an
\* input that meets the advisory rules
InitAdvisory ==
    /\ pk11_uri \in AdvisoryInputs
    /\ pc = "start"
    /\ count = 0
    /\ mapping = None
    /\ result = Pending
    /\ examined = <<>>
    /\ stdout = <<>>
    /\ debug_assertions \in BOOLEAN
    /\ statics = {}
    /\ suspended = None

SpecAdvisory == InitAdvisory /\ [][Next]_vars

\* the locals of the running call
Locals ==
    [pk11_uri |-> pk11_uri, pc |-> pc, count |-> count, mapping |-> mapping,
     result |-> result, examined |-> examined]

\* the locals of a call that has not taken a step
Call(uri) ==
    [pk11_uri |-> uri, pc |-> "start", count |-> 0, mapping |-> None,
     result |-> Pending, examined |-> <<>>]

\* the scheduler runs the process's other thread: the running call is set
\* aside with its locals, the other goes on where it was
Switch ==
    /\ suspended # None
    /\ pk11_uri' = Unwrap(suspended).pk11_uri
    /\ pc' = Unwrap(suspended).pc
    /\ count' = Unwrap(suspended).count
    /\ mapping' = Unwrap(suspended).mapping
    /\ result' = Unwrap(suspended).result
    /\ examined' = Unwrap(suspended).examined
    /\ suspended' = Some(Locals)
    /\ UNCHANGED <<stdout, debug_assertions, statics>>

\* two calls of parse in one process, on any two inputs, neither begun
InitCalls ==
    /\ pk11_uri \in CallInputs
    /\ pc = "start"
    /\ count = 0
    /\ mapping = None
    /\ result = Pending
    /\ examined = <<>>
    /\ stdout = <<>>
    /\ debug_assertions = TRUE
    /\ statics = {}
    /\ suspended \in {Some(Call(uri)) : uri \in CallInputs}

NextCalls == Next \/ Switch

SpecCalls == InitCalls /\ [][NextCalls]_vars

-----------------------------------------------------------------------------
(* Inputs that put the handling of one fragment to the test, and the       *)
(* rendering of the error a call returns.                                  *)

DelimiterPathFragments == {"token=a", "object=b", "", "\n\t"}

DelimiterQueryFragments == {"pin-value=1", "v=a", "", "\n"}

\* leading, doubled and trailing delimiters, at most MaxAttrs fragments in all
DelimiterInputs ==
    UNION {{PKCS11_SCHEME \o Join(p, ";") \o q :
               q \in {""} \cup {"?" \o Join(qs, "&") :
                         qs \in SeqsUpTo(DelimiterQueryFragments,
                                         MaxAttrs - Len(p))}} :
              p \in SeqsUpTo(DelimiterPathFragments, MaxAttrs)}

OrderNames ==
    {"token", "object", "type", "slot-id", "library-version", "pin-value",
     "module-name", "v", "w", "a.b", ""}

OrderValues == {"a", "", "a b", "a#", "a# b", "a/b", "data", "7"}

\* a last fragment with or without '=', with a name that is fine, repeated,
\* misplaced or invalid, and a value that is fine or not, after fragments
\* that were accepted
OrderInputs ==
    {PKCS11_SCHEME \o before \o n \o e \o v :
        before \in {"token=a;v=b;type=data;", "?pin-value=1&v=b&",
                    "slot-id=7;", "?module-name=m&"},
        n \in OrderNames, e \in {"=", ""}, v \in OrderValues}

NameSamples ==
    {"v", "x-v", "a_b", "-", "_", "9", "A1-b_2", "Token", "token-", "~",
     "a.b", "a b", "a!", "a:b", "a\nb", "", "token", "pin-value", "%41"}

\* one attribute of such a name, in either component
NameInputs ==
    {PKCS11_SCHEME \o c \o ws \o n \o ws \o "=" \o v :
        c \in {"", "?"}, ws \in {"", " ", "\n"}, n \in NameSamples,
        v \in {"a", "a b"}}

\* an attribute with nothing, or only white space, after its '=', alone or
\* followed by the same name again
EmptyValueVariants(n, d) ==
    {n \o "=" \o ws \o again :
        ws \in {"", "\n\t", " "}, again \in {"", d \o n \o "=x", d \o n \o "="}}

EmptyValueInputs ==
    UNION {{PKCS11_SCHEME \o t : t \in EmptyValueVariants(n, ";")} :
              n \in PathNames \cup {"v"}}
    \cup UNION {{PKCS11_SCHEME \o "?" \o t : t \in EmptyValueVariants(n, "&")} :
                   n \in QueryNames \cup {"v"}}

SplitPathValues == {"a", "a=b", "=", "a&b", "&object=c", " a&=\t"}

SplitQueryValues == {"a", "a=b", "=", "a;b", "a?b", "?", ";token=c", "?v=c"}

\* values that hold the characters '=', '&', ';' and '?'
SplitInputs ==
    {PKCS11_SCHEME \o "token=" \o pv \o ";v =" \o pw \o "?pin-value=" \o qv
         \o "&v= " \o qw :
        pv \in SplitPathValues, pw \in SplitPathValues,
        qv \in SplitQueryValues, qw \in {"a", "=;?"}}

\* names given once, twice and three times, in one component and in both
MappingInputs ==
    {"pkcs11:v=1;w=2;token=a?v=2&w=3&v=1&pin-value=4",
     "pkcs11:v=1?v=2&v=3&v",
     "pkcs11:v=1;token=a;v=2",
     "pkcs11:w=1;token=a;token=b;w=2",
     "pkcs11:?v=1&v=1&pin-value=2&pin-value=3&v=4",
     "pkcs11:token=a;object=b?v=1&v=2&v=a b&v=3",
     "pkcs11:id=%01;v=1;id=%02?v=2"}

FragmentInputs ==
    DelimiterInputs \cup OrderInputs \cup NameInputs \cup EmptyValueInputs
        \cup SplitInputs \cup MappingInputs \cup NoSchemeInputs

\* one call of parse on such an input
InitFragments ==
    /\ pk11_uri \in FragmentInputs
    /\ pc = "start"
    /\ count = 0
    /\ mapping = None
    /\ result = Pending
    /\ examined = <<>>
    /\ stdout = <<>>
    /\ debug_assertions = TRUE
    /\ statics = {}
    /\ suspended = None

SpecFragments == InitFragments /\ [][Next]_vars

RECURSIVE Repeat(_, _)
Repeat(fill, n) == IF n <= 0 THEN "" ELSE fill \o Repeat(fill, n - 1)

\* the format spec {:<width$} with a fill: the width is a minimum
PadLeft(s, fill, width) == s \o Repeat(fill, width - Len(s))

\* the format spec {:^width$} with a fill: the text is centred, the odd
\* fill character goes to the right, and the width is a minimum
PadCenter(s, fill, width) ==
    LET missing == IF width > Len(s) THEN width - Len(s) ELSE 0
    IN  Repeat(fill, missing \div 2) \o s
            \o Repeat(fill, missing - (missing \div 2))

\* a slip: the highlight is as many carets as the span is long, and no more
fmt_NoMinimum(self, overflow_checks) ==
    LET padding   == self.error_span[1]
        highlight == UsizeSub(self.error_span[2], padding, overflow_checks)
    IN  IF ~highlight.ok THEN highlight
        ELSE Ok(self.pk11_uri \o "\n" \o Repeat(" ", padding)
                    \o Repeat("^", highlight.val) \o " " \o self.violation
                    \o "\n\nhelp: " \o self.help)

\* Display::fmt of PK11URIError
fmt(self, overflow_checks) ==
    LET padding   == self.error_span[1]
        highlight == UsizeSub(self.error_span[2], padding, overflow_checks)
    IN  IF ~highlight.ok THEN highlight
        ELSE Ok(self.pk11_uri \o "\n" \o PadLeft("", " ", padding)
                    \o PadCenter("^", "^", highlight.val) \o " "
                    \o self.violation \o "\n\nhelp: " \o self.help)

\* the caller prints the error it was given, as the crate's documentation
\* does with println!("{err}")
PrintError ==
    /\ pc = "done"
    /\ result.kind = "Err"
    /\ \E overflow_checks \in BOOLEAN :
           LET text == fmt(result, overflow_checks)
           IN  IF text.ok
               THEN stdout' = Append(stdout, text.val) /\ UNCHANGED result
               ELSE result' = Panic(text.err) /\ UNCHANGED stdout
    /\ pc' = "printed"
    /\ UNCHANGED <<pk11_uri, count, mapping, examined>>
    /\ UNCHANGED <<debug_assertions, statics, suspended>>

NextDisplay == Next \/ PrintError

\* one call of parse, and the display of its error
SpecDisplay == InitFragments /\ [][NextDisplay]_vars

-----------------------------------------------------------------------------
(* What the claims speak of, read off the input by splitting alone.        *)

Done == pc = "done"

Failed == result.kind = "Err"

Last(seq) == seq[Len(seq)]

HasEq(attr) == Contains(attr, "=")

\* the trimmed text before, and after, a fragment's first '='
NameOf(attr) == Trim(Unwrap(SplitOnce(attr, "="))[1])

ValueOf(attr) == Trim(Unwrap(SplitOnce(attr, "="))[2])

Tagged(component, attrs) ==
    [i \in 1..Len(attrs) |->
        [component |-> component, count |-> i - 1, attr |-> attrs[i]]]

\* every fragment of the input: the path's left to right, then the query's
AllAttrs(uri) ==
    Tagged("path", Attrs("path", uri)) \o Tagged("query", Attrs("query", uri))

RECURSIVE SumLen(_)
SumLen(texts) ==
    IF Len(texts) = 0 THEN 0 ELSE Len(texts[1]) + SumLen(Tail(texts))

RECURSIVE ValuesOf(_, _)
\* the values, in order, of the fragments of `attrs` named `name`
ValuesOf(attrs, name) ==
    IF Len(attrs) = 0 THEN <<>>
    ELSE (IF HasEq(attrs[1].attr) /\ NameOf(attrs[1].attr) = name
          THEN <<ValueOf(attrs[1].attr)>> ELSE <<>>)
             \o ValuesOf(Tail(attrs), name)

-----------------------------------------------------------------------------
(* C1..C10                                                                 *)

\* C1: for every input, parse returns a mapping or a PK11URIError and never
\* aborts: the offset recovery of a failing fragment always completes.
\* Refuted: a path or query region made only of newlines and tabs (as in
\* "pkcs11:\n") makes find_empty_attr_index subtract 1 from length 0, which
\* panics in a build with overflow checks.
C1_NeverAborts == result.kind # "Panic"

\* the grammar, read on the tidied text: no white space is left anywhere, every
\* fragment is name=value with a name of its component (or a vendor name) and a
\* value its validator accepts, and no single-valued name is given twice
GrammarAttr(component, attr) ==
    /\ \A i \in 1..Len(attr) : CharAt(attr, i) \notin WhiteSpace
    /\ PK11AttrTryFrom(component, attr).ok

SingleValued(component, attr) ==
    component = "path" \/ NameOf(attr) \in QueryNames

GrammarAccepts(uri) ==
    /\ StartsWith(uri, PKCS11_SCHEME)
    /\ LET attrs == AllAttrs(tidy(uri))
       IN  /\ \A i \in 1..Len(attrs) :
                  GrammarAttr(attrs[i].component, attrs[i].attr)
           /\ \A i, j \in 1..Len(attrs) :
                  (/\ i < j
                   /\ attrs[i].component = attrs[j].component
                   /\ SingleValued(attrs[i].component, attrs[i].attr))
                      => NameOf(attrs[i].attr) # NameOf(attrs[j].attr)

\* the text after the '=' of the attribute `name` in the tidied input
GrammarValue(uri, name) ==
    LET values == ValuesOf(AllAttrs(tidy(uri)), name)
    IN  IF Len(values) = 0 THEN None ELSE Some(values[1])

\* C2: for every input the grammar accepts (newline/tab formatting allowed),
\* parse succeeds and each standard attribute's accessor returns exactly the
\* text that followed its '=' in the tidied input, or absent.
\* Refuted: the code splits and validates the raw text, so a newline or tab
\* inside a name or a value is not formatting to it.
C2_GrammarInputsParse ==
    (Done /\ GrammarAccepts(pk11_uri)) =>
        /\ result.kind = "Ok"
        /\ \A n \in PathNames \cup QueryNames :
               result.mapping.std[n] = GrammarValue(pk11_uri, n)

\* C3: fragments are examined in order, the path's and then the query's; the
\* first one that fails ends parse: none is examined after it, the error is
\* that fragment's and carries no mapping; and no query fragment is reported
\* while some path fragment is not well-formed.
C3_FailFast ==
    /\ Len(examined) <= Len(AllAttrs(pk11_uri))
    /\ \A i \in 1..Len(examined) :
           /\ examined[i].component = AllAttrs(pk11_uri)[i].component
           /\ examined[i].count = AllAttrs(pk11_uri)[i].count
           /\ examined[i].attr = AllAttrs(pk11_uri)[i].attr
           /\ i < Len(examined) => examined[i].ok
    /\ (examined # <<>> /\ ~Last(examined).ok) =>
           /\ Done
           /\ result.kind # "Ok"
           /\ Failed =>
                  /\ DOMAIN result = {"kind", "pk11_uri", "error_span", "violation", "help"}
                  /\ tidy(Last(examined).attr) # "" =>
                         result.violation =
                             Assign(Last(examined).component,
                                    Last(examined).attr, mapping).err.violation
                  /\ Last(examined).component = "query" =>
                         \A i \in 1..Len(Attrs("path", pk11_uri)) :
                             PK11AttrTryFrom("path", Attrs("path", pk11_uri)[i]).ok
    /\ result.kind = "Ok" =>
           /\ Len(examined) = Len(AllAttrs(pk11_uri))
           /\ \A i \in 1..Len(examined) : examined[i].ok

C3_Witness ==
    /\ Done /\ Failed
    /\ Len(examined) = 2
    /\ examined[1].component = "path"
    /\ examined[2].component = "query"
    /\ Len(AllAttrs(pk11_uri)) > Len(examined)

\* where fragment number k of its region starts in the tidied input
PlaceOf(uri, component, k) ==
    LET attrs == Attrs(component, uri)
        base  == IF component = "path" THEN 7
                 ELSE Unwrap(Find(tidy(uri), "?")) + 1
    IN  base + SumLen([j \in 1..k |-> tidy(attrs[j])]) + k

\* C4: when fragment k of a region fails and its tidied text is not empty,
\* the error span is exactly the place of fragment k in the tidied input,
\* also when the same text occurs earlier in the region.
\* Refuted: the fragment is located by a search for its text, which finds the
\* first occurrence ("pkcs11:token=foo;token=foo" reports (7, 16)).
C4_SpanIsFragmentPlace ==
    (Done /\ Failed /\ examined # <<>> /\ tidy(Last(examined).attr) # "") =>
        LET e     == Last(examined)
            start == PlaceOf(pk11_uri, e.component, e.count)
        IN  result.error_span = <<start, start + Len(tidy(e.attr))>>

DocSpaceExample ==
    "pkcs11:object=Private key for Card Authentication;pin-value=123456"

\* C5 as stated: the documentation's example fails with the space violation
\* and the span covers exactly the value 'Private key for Card Authentication',
\* which is at (14, 49).
C5_SpanCoversValue ==
    (Done /\ pk11_uri = DocSpaceExample) =>
        /\ Failed
        /\ result.violation = SpaceViolation
        /\ result.error_span = <<14, 49>>
        /\ Slice(result.pk11_uri, 14, 49) = "Private key for Card Authentication"

\* C5 as amended: the example fails with the space violation and the span
\* (7, 49) covers the whole fragment 'object=Private key for Card
\* Authentication'; the text under the span of any space or '#' violation is
\* the whole tidied fragment: name, '=' and value.
C5_SpanCoversAttr ==
    /\ (Done /\ pk11_uri = DocSpaceExample) =>
           /\ Failed
           /\ result.violation = SpaceViolation
           /\ result.error_span = <<7, 49>>
           /\ Slice(result.pk11_uri, 7, 49)
                  = "object=Private key for Card Authentication"
    /\ (Done /\ Failed /\ result.violation \in {SpaceViolation, HashViolation}) =>
           /\ HasEq(Last(examined).attr)
           /\ Slice(result.pk11_uri, result.error_span[1], result.error_span[2])
                  = tidy(Last(examined).attr)

C5_Witness ==
    /\ Done /\ pk11_uri = DocSpaceExample
    /\ Failed /\ Len(examined) = 1

\* C6: parse fails with the scheme violation, span (0, 0), exactly when the
\* raw input does not begin with the case-sensitive text 'pkcs11:'; then no
\* fragment is examined; in every other case that violation is not reported.
C6_SchemeOnly ==
    LET scheme == Len(pk11_uri) >= 7 /\ SubSeq(pk11_uri, 1, 7) = "pkcs11:"
    IN  /\ Done =>
               ((Failed /\ result.violation = SchemeViolation) <=> ~scheme)
        /\ (Done /\ ~scheme) =>
               /\ result.error_span = <<0, 0>>
               /\ examined = <<>>
        /\ ~scheme => (examined = <<>> /\ pc \in {"start", "done"})

C6_Witness ==
    /\ Done /\ Failed
    /\ result.violation = SchemeViolation
    /\ Contains(pk11_uri, "pkcs11:")

DuplicateViolation(component, attr) ==
    IF attr.vattr
    THEN "Duplicate 'pk11-v-pattr' vendor-specific name: \"" \o attr.name \o "\"."
    ELSE IF component = "path"
    THEN "Duplicate 'pk11-pattr' standard name: \"" \o attr.name \o "\"."
    ELSE "Duplicate 'pk11-qattr' standard name: \"" \o attr.name \o "\"."

\* the fragments examined before number j that gave the name of fragment j
\* in the same component, both being well-formed
EarlierSameName(j) ==
    {i \in 1..(j - 1) :
        /\ examined[i].component = examined[j].component
        /\ PK11AttrTryFrom(examined[i].component, examined[i].attr).ok
        /\ PK11AttrTryFrom(examined[i].component, examined[i].attr).val.attr
               = PK11AttrTryFrom(examined[j].component, examined[j].attr).val.attr}

VendorNamesOf(uri) ==
    {NameOf(AllAttrs(uri)[i].attr) : i \in 1..Len(AllAttrs(uri))}
        \ (PathNames \cup QueryNames)

\* C8: after a successful parse, vendor(name) is the list of all the values
\* given for that name, the path's first and then the query's left to right,
\* equal values kept; names that were not given have no entry.
C8_VendorValuesInOrder ==
    result.kind = "Ok" =>
        /\ DOMAIN result.mapping.vendor = VendorNamesOf(pk11_uri)
        /\ \A name \in VendorNamesOf(pk11_uri) :
               result.mapping.vendor[name] = ValuesOf(AllAttrs(pk11_uri), name)

C8_Witness ==
    /\ result.kind = "Ok"
    /\ "v" \in DOMAIN result.mapping.vendor
    /\ result.mapping.vendor["v"] = <<"a", "b", "a">>
    /\ Len(Attrs("path", pk11_uri)) = 1

\* C9: a fragment whose name is a standard name of the other component fails
\* with the naming-collision violation of that component, whatever its value,
\* and no standard name is ever a key of the vendor table.
C9_NamingCollision ==
    /\ \A i \in 1..Len(examined) :
           LET e == examined[i]
           IN  (HasEq(e.attr) /\ NameOf(e.attr) \in ComponentNames(
                    IF e.component = "path" THEN "query" ELSE "path"))
                   => /\ ~e.ok
                      /\ Done /\ Failed
                      /\ result.violation =
                             IF e.component = "path"
                             THEN "Naming collision with standard query component."
                             ELSE "Naming collision with standard path component."
    /\ mapping # None =>
           DOMAIN mapping.vendor \cap (PathNames \cup QueryNames) = {}

C9_Witness ==
    /\ Done /\ Failed
    /\ examined # <<>>
    /\ Last(examined).component = "query"
    /\ HasEq(Last(examined).attr)
    /\ NameOf(Last(examined).attr) = "slot-id"
    /\ ValueOf(Last(examined).attr) = "a b#"
    /\ result.violation = "Naming collision with standard path component."

\* a fragment that gives an attribute of its own component a value with a
\* literal space or a literal '#'
BadCommonValue(component, attr) ==
    /\ HasEq(attr)
    /\ \/ NameOf(attr) \in ComponentNames(component)
       \/ /\ NameOf(attr) \notin PathNames \cup QueryNames
          /\ NameOf(attr) # ""
          /\ AllCharsIn(NameOf(attr), VendorNameChars)
    /\ \E i \in 1..Len(ValueOf(attr)) : CharAt(ValueOf(attr), i) \in {" ", "#"}

\* C10: when any fragment gives an attribute of its own component (standard
\* or vendor) a trimmed value with a literal space or '#', parse fails.
C10_SpaceAndHashRejected ==
    (Done /\ \E i \in 1..Len(AllAttrs(pk11_uri)) :
                BadCommonValue(AllAttrs(pk11_uri)[i].component,
                               AllAttrs(pk11_uri)[i].attr))
        => Failed

C10_Witness ==
    /\ Done /\ Failed
    /\ examined # <<>>
    /\ result.violation = HashViolation
    /\ Last(examined).component = "query"
    /\ HasEq(Last(examined).attr)
    /\ NameOf(Last(examined).attr) = "module-path"

-----------------------------------------------------------------------------
(* C11..C20                                                                *)

\* a name the vendor grammar accepts: in neither vocabulary, not empty, made
\* of alphanumerics, '-' and '_'
VendorName(name) ==
    /\ name \notin PathNames \cup QueryNames
    /\ name # ""
    /\ AllCharsIn(name, VendorNameChars)

\* the fragment names an attribute of its own component, standard or vendor
OwnAttr(component, attr) ==
    /\ HasEq(attr)
    /\ NameOf(attr) \in ComponentNames(component) \/ VendorName(NameOf(attr))

\* the path attributes the '/' rule is for
SlashRuled(attr) ==
    /\ OwnAttr("path", attr)
    /\ NameOf(attr) \notin {"type", "library-version", "slot-id"}

\* C11 as stated: a path attribute other than type, library-version and
\* slot-id (a vendor one included) whose value contains '/' fails with the
\* path '/' violation.
C11_SlashViolationAlways ==
    \A i \in 1..Len(examined) :
        (/\ examined[i].component = "path"
         /\ SlashRuled(examined[i].attr)
         /\ Contains(ValueOf(examined[i].attr), "/"))
            => /\ ~examined[i].ok
               /\ Done /\ Failed
               /\ result.violation = SlashViolation

\* C11 as amended: such a value fails, with the path '/' violation when it
\* has no space and no '#' (the common rule is tested first and reports
\* those); a query attribute, standard or vendor, whose value has a '/' and
\* no space or '#' passes validation (it can only fail as a duplicate) and
\* its value is returned with the '/' intact.
C11_SlashPathOnly ==
    \A i \in 1..Len(examined) :
        LET e     == examined[i]
            value == ValueOf(e.attr)
        IN  /\ (/\ e.component = "path"
                /\ SlashRuled(e.attr)
                /\ Contains(value, "/"))
                   => /\ ~e.ok
                      /\ Done /\ Failed
                      /\ result.violation =
                             IF Contains(value, " ") THEN SpaceViolation
                             ELSE IF Contains(value, "#") THEN HashViolation
                             ELSE SlashViolation
            /\ (/\ e.component = "query"
                /\ OwnAttr("query", e.attr)
                /\ Contains(value, "/")
                /\ ~Contains(value, " ") /\ ~Contains(value, "#"))
                   => /\ PK11AttrTryFrom("query", e.attr).ok
                      /\ ~e.ok =>
                             /\ Failed
                             /\ result.violation =
                                    DuplicateViolation("query",
                                        StdAttr(NameOf(e.attr)))
                      /\ result.kind = "Ok" =>
                             IF NameOf(e.attr) \in QueryNames
                             THEN result.mapping.std[NameOf(e.attr)] = Some(value)
                             ELSE \E k \in 1..Len(result.mapping.vendor[NameOf(e.attr)]) :
                                      result.mapping.vendor[NameOf(e.attr)][k] = value

C11_Witness ==
    /\ result.kind = "Ok"
    /\ Len(examined) = 2
    /\ examined[2].component = "query"
    /\ NameOf(examined[2].attr) = "module-path"
    /\ result.mapping.std["module-path"] = Some("/usr/lib/p11.so")

\* the path fragments examined so far that give the attribute `name`
PathGiven(name) ==
    {i \in 1..Len(examined) :
        /\ examined[i].component = "path"
        /\ HasEq(examined[i].attr)
        /\ NameOf(examined[i].attr) = name}

\* a fragment that was not accepted failed, if not by its value, as a
\* repetition of its name
OnlyDuplicate(i) ==
    ~examined[i].ok =>
        /\ Done /\ Failed
        /\ result.violation =
               DuplicateViolation("path", StdAttr(NameOf(examined[i].attr)))

\* C12: a path attribute named type passes validation exactly when its
\* trimmed value is one of public, private, cert, secret-key, data, compared
\* case-sensitively; any other value, the empty one included, makes parse
\* fail with the type violation.
C12_TypeEnumeration ==
    \A i \in PathGiven("type") :
        LET value == ValueOf(examined[i].attr)
        IN  IF \/ value = "public" \/ value = "private" \/ value = "cert"
               \/ value = "secret-key" \/ value = "data"
            THEN /\ PK11AttrTryFrom("path", examined[i].attr).ok
                 /\ OnlyDuplicate(i)
                 /\ result.kind = "Ok" => result.mapping.std["type"] = Some(value)
            ELSE /\ ~examined[i].ok
                 /\ Done /\ Failed
                 /\ result.violation = TypeViolation

C12_Witness ==
    /\ Done /\ Failed
    /\ pk11_uri = "pkcs11:type="
    /\ PathGiven("type") = {1}
    /\ result.violation = TypeViolation

\* the ten digits of 1*DIGIT
DecimalDigits == {"0", "1", "2", "3", "4", "5", "6", "7", "8", "9"}

\* one or more of the ten digits and nothing else
IsNumber(value) ==
    /\ Len(value) >= 1
    /\ \A k \in 1..Len(value) : CharAt(value, k) \in DecimalDigits

\* a number, or a number, one '.', and a number
IsVersion(value) ==
    \/ IsNumber(value)
    \/ \E k \in 1..Len(value) :
          /\ CharAt(value, k) = "."
          /\ IsNumber(SubSeq(value, 1, k - 1))
          /\ IsNumber(SubSeq(value, k + 1, Len(value)))

\* C13: a path attribute named library-version passes validation exactly
\* when its trimmed value is one or more digits, optionally followed by one
\* '.' and one or more digits; every other value makes parse fail with the
\* library-version violation.
\* Refuted: the regex's \d is Unicode-aware, so a value made of decimal
\* digits of another script is accepted too.
C13_LibraryVersionFormat ==
    \A i \in PathGiven("library-version") :
        LET value == ValueOf(examined[i].attr)
        IN  IF IsVersion(value)
            THEN /\ PK11AttrTryFrom("path", examined[i].attr).ok
                 /\ OnlyDuplicate(i)
            ELSE /\ ~examined[i].ok
                 /\ Done /\ Failed
                 /\ result.violation = LibraryVersionViolation

\* C14: a path attribute named slot-id passes validation exactly when its
\* trimmed value is one or more decimal digits and nothing else; a sign, a
\* letter, the empty value or any other character makes parse fail with the
\* slot-id violation.
\* Refuted, as C13 is: \d matches the decimal digits of every script.
C14_SlotIdDigitsOnly ==
    \A i \in PathGiven("slot-id") :
        LET value == ValueOf(examined[i].attr)
        IN  IF IsNumber(value)
            THEN /\ PK11AttrTryFrom("path", examined[i].attr).ok
                 /\ OnlyDuplicate(i)
            ELSE /\ ~examined[i].ok
                 /\ Done /\ Failed
                 /\ result.violation = SlotIdViolation

\* C15: when the path region and the query region are both empty, that is
\* for 'pkcs11:' and 'pkcs11:?', parse succeeds without examining any
\* fragment and returns a mapping whose 17 standard attributes are all
\* absent and whose vendor table is empty.
C15_EmptyRegions ==
    (Done /\ (pk11_uri = "pkcs11:" \/ pk11_uri = "pkcs11:?")) =>
        /\ result.kind = "Ok"
        /\ examined = <<>>
        /\ Cardinality(DOMAIN result.mapping.std) = 17
        /\ \A n \in DOMAIN result.mapping.std : result.mapping.std[n] = None
        /\ DOMAIN result.mapping.vendor = {}

C15_Witness ==
    /\ Done
    /\ pk11_uri = "pkcs11:?"
    /\ result.kind = "Ok"
    /\ result.mapping = DefaultMapping

\* the fatal rules, read off the input: the scheme, every fragment
\* well-formed with a valid name and value, no single-valued name twice
FatalFree(uri) ==
    /\ Len(uri) >= 7 /\ SubSeq(uri, 1, 7) = "pkcs11:"
    /\ LET attrs == AllAttrs(uri)
       IN  /\ \A i \in 1..Len(attrs) :
                  PK11AttrTryFrom(attrs[i].component, attrs[i].attr).ok
           /\ \A i, j \in 1..Len(attrs) :
                  (/\ i < j
                   /\ attrs[i].component = attrs[j].component
                   /\ \/ attrs[i].component = "path"
                      \/ NameOf(attrs[i].attr) \in QueryNames)
                      => NameOf(attrs[i].attr) # NameOf(attrs[j].attr)

\* C16: the advisory conditions (both pin-source and pin-value, both
\* module-name and module-path, a vendor name starting with 'x-', characters
\* that should be percent-encoded) never change the outcome: in every build
\* parse succeeds exactly when no fatal rule is broken, and the mapping then
\* holds every attribute of the input with its value as given.
C16_AdvisoryOnly ==
    Done =>
        /\ result.kind = "Ok" <=> FatalFree(pk11_uri)
        /\ result.kind = "Ok" =>
               /\ \A n \in PathNames \cup QueryNames :
                      LET values == ValuesOf(AllAttrs(pk11_uri), n)
                      IN  result.mapping.std[n] =
                              IF values = <<>> THEN None ELSE Some(values[1])
               /\ DOMAIN result.mapping.vendor = VendorNamesOf(pk11_uri)
               /\ \A name \in VendorNamesOf(pk11_uri) :
                      result.mapping.vendor[name]
                          = ValuesOf(AllAttrs(pk11_uri), name)
        /\ ~debug_assertions => stdout = <<>>

C16_Witness ==
    /\ Done
    /\ result.kind = "Ok"
    /\ Len(stdout) = 5
    /\ result.mapping.std["pin-source"] = Some("file:/etc/pin")
    /\ result.mapping.std["pin-value"] = Some("1")
    /\ result.mapping.std["module-name"] = Some("libp11.so")
    /\ result.mapping.std["module-path"] = Some("/usr/lib/p11.so")
    /\ result.mapping.vendor["x-v"] = <<"a", "a|b">>

RECURSIVE StripFormatting(_)
\* the text without its newlines and tabs, every other character kept in
\* its place
StripFormatting(text) ==
    IF text = "" THEN ""
    ELSE (IF CharAt(text, 1) = "\n" \/ CharAt(text, 1) = "\t" THEN ""
          ELSE CharAt(text, 1))
             \o StripFormatting(SubSeq(text, 2, Len(text)))

\* C17: every error parse returns, for the scheme, a path fragment or a
\* query fragment, carries the raw input without its newlines and tabs and
\* with every other character kept in order; the span lies inside that text,
\* and the text under the span is the failing fragment, likewise stripped:
\* the offsets are those of the tidied text, not of the raw input.
C17_ErrorCarriesTidiedInput ==
    Failed =>
        /\ result.pk11_uri = StripFormatting(pk11_uri)
        /\ 0 <= result.error_span[1]
        /\ result.error_span[1] <= result.error_span[2]
        /\ result.error_span[2] <= Len(result.pk11_uri)
        /\ examined # <<>> =>
               Slice(result.pk11_uri, result.error_span[1], result.error_span[2])
                   = StripFormatting(Last(examined).attr)

C17_Witness ==
    /\ Failed
    /\ examined # <<>>
    /\ Last(examined).component = "query"
    /\ result.pk11_uri # pk11_uri
    /\ StripFormatting(Last(examined).attr) # ""
    /\ Slice(pk11_uri, result.error_span[1], result.error_span[2])
           # Slice(result.pk11_uri, result.error_span[1], result.error_span[2])

\* the texts a call hands to tidy: the input, its regions, its fragments
TidiedTexts ==
    {pk11_uri}
        \cup {Unwrap(Region(c, pk11_uri)) :
                 c \in {d \in {"path", "query"} : Region(d, pk11_uri) # None}}
        \cup {AllAttrs(pk11_uri)[i].attr : i \in 1..Len(AllAttrs(pk11_uri))}

\* C18: tidying is idempotent: tidy(tidy(s)) = tidy(s) for every text s, and
\* tidy(s) = s for every s without a newline and a tab; so the text an error
\* carries is left as it is by another tidy.
C18_TidyIdempotent ==
    /\ \A s \in TidiedTexts :
           /\ tidy(tidy(s)) = tidy(s)
           /\ (~Contains(s, "\n") /\ ~Contains(s, "\t")) => tidy(s) = s
    /\ Failed => tidy(result.pk11_uri) = result.pk11_uri

C18_Witness ==
    /\ Failed
    /\ examined # <<>>
    /\ Len(pk11_uri) >= Len(result.pk11_uri) + 2
    /\ tidy(result.pk11_uri) = result.pk11_uri
    /\ tidy(Last(examined).attr) # Last(examined).attr
    /\ tidy(Last(examined).attr) # ""

\* the fragments of `uri` that a call has handed to assign when its log
\* has n entries, as the log must show them
LogOf(uri, n, failed) ==
    [i \in 1..n |->
        [component |-> AllAttrs(uri)[i].component,
         count |-> AllAttrs(uri)[i].count,
         attr |-> AllAttrs(uri)[i].attr,
         ok |-> ~(failed /\ i = n)]]

RECURSIVE MappingAfter(_, _)
\* the mapping built from the first n fragments of `uri` and nothing else
MappingAfter(uri, n) ==
    IF n = 0 THEN DefaultMapping
    ELSE Assign(AllAttrs(uri)[n].component, AllAttrs(uri)[n].attr,
                MappingAfter(uri, n - 1)).val

\* the locals `c` of a call are what a call alone on c.pk11_uri has at that
\* place: its log is a prefix of its own input's fragments, its mapping is
\* the one built from the fragments of its path and query it has passed,
\* and its result is that of parse on its input
Alone(c) ==
    LET n      == Len(c.examined)
        failed == n > 0 /\ ~c.examined[n].ok
        passed == IF failed THEN n - 1 ELSE n
    IN  /\ n <= Len(AllAttrs(c.pk11_uri))
        /\ c.examined = LogOf(c.pk11_uri, n, failed)
        /\ c.pc = "start" => c.mapping = None /\ n = 0
        /\ c.pc = "done" =>
               c.result \in {parse(c.pk11_uri, overflow_checks) :
                                overflow_checks \in BOOLEAN}
        /\ c.pc # "done" => c.result = Pending
        /\ c.result.kind = "Ok" => c.mapping = c.result.mapping
        /\ c.mapping # None => c.mapping = MappingAfter(c.pk11_uri, passed)

\* C19: calls of parse share no mutable state: however two calls of one
\* process are interleaved, each call's log, mapping and result are those
\* of a call alone on its own input, so nothing in them comes from the
\* other call; what the process shares, the terminal and the Lazy regexes,
\* is written and never read back into a result.
C19_CallsIndependent ==
    /\ Alone(Locals)
    /\ suspended # None => Alone(Unwrap(suspended))
    /\ statics \subseteq {"LIBRARY_VERSION_REGEX", "SLOT_ID_REGEX"}

C19_Witness ==
    /\ Done
    /\ suspended # None
    /\ Unwrap(suspended).pc = "done"
    /\ pk11_uri = "pkcs11:token=a;v=1?v=2&pin-value=3"
    /\ Unwrap(suspended).pk11_uri = "pkcs11:token=b;slot-id=7?v=9"
    /\ result.kind = "Ok"
    /\ Unwrap(suspended).result.kind = "Ok"
    /\ result.mapping.vendor["v"] = <<"1", "2">>
    /\ Unwrap(suspended).result.mapping.vendor["v"] = <<"9">>

\* C20: newlines and tabs are stripped before the input is split, classified
\* and validated: for every input x that begins with the scheme, parse(x)
\* and parse(tidy(x)) both succeed with the same value for every standard
\* and vendor attribute, or both fail with the same violation and span.
\* Refuted: the raw text is split and validated, and tidy is applied only
\* to report an error, so a newline or tab inside a name or a value counts.
C20_ParseOfTidied ==
    (Done /\ StartsWith(pk11_uri, PKCS11_SCHEME)) =>
        \E overflow_checks \in BOOLEAN :
            LET tidied == parse(tidy(pk11_uri), overflow_checks)
            IN  \/ /\ result.kind = "Ok"
                   /\ tidied.kind = "Ok"
                   /\ tidied.mapping = result.mapping
                \/ /\ result.kind = "Err"
                   /\ tidied.kind = "Err"
                   /\ tidied.violation = result.violation
                   /\ tidied.error_span = result.error_span

-----------------------------------------------------------------------------
(* The handling of one fragment: delimiters, the order of the checks, the  *)
(* mapping while fragments are assigned, names, values, spans, rendering.  *)

\* the fragment that failed tidies to nothing and its region has a delimiter
EmptyFragmentFailed ==
    /\ Done /\ examined # <<>> /\ ~Last(examined).ok
    /\ tidy(Last(examined).attr) = ""
    /\ Len(Attrs(Last(examined).component, pk11_uri)) > 1

\* the index, in the tidied input, of the delimiter next to empty fragment
\* number k: the one after it, or the one before it when it is the last
DelimiterOf(uri, component, k) ==
    IF k + 1 < Len(Attrs(component, uri))
    THEN PlaceOf(uri, component, k)
    ELSE PlaceOf(uri, component, k) - 1

\* C21: when the fragment that fails tidies to the empty string (a leading,
\* doubled or trailing delimiter), parse returns the error "Misplaced path
\* delimiter." or "Misplaced query delimiter.", its span has zero length, and
\* the span starts at a delimiter of the tidied input: the N-th (0-based)
\* delimiter of the region for empty fragment number N, the region's last
\* character when the empty fragment is the last one.
C21_MisplacedDelimiter ==
    EmptyFragmentFailed =>
        LET e  == Last(examined)
            at == DelimiterOf(pk11_uri, e.component, e.count)
        IN  /\ Failed
            /\ result.violation =
                   (IF e.component = "path" THEN "Misplaced path delimiter."
                    ELSE "Misplaced query delimiter.")
            /\ result.error_span = <<at, at>>
            /\ CharAt(result.pk11_uri, at + 1) = Delimiter(e.component)
            /\ Cardinality(
                   {i \in (PlaceOf(pk11_uri, e.component, 0) + 1)..at :
                       CharAt(result.pk11_uri, i) = Delimiter(e.component)})
                 = (IF e.count + 1 < Len(Attrs(e.component, pk11_uri))
                    THEN e.count ELSE e.count - 1)

\* a doubled '&' in the middle of a query of three fragments was reported
C21_Witness ==
    /\ EmptyFragmentFailed
    /\ Failed
    /\ result.violation = "Misplaced query delimiter."
    /\ Last(examined).count = 1
    /\ Len(Attrs("query", pk11_uri)) = 3
    /\ Attrs("query", pk11_uri)[1] = "v=a"

NameViolations ==
    {"Invalid component: Missing attribute name.",
     "Naming collision with standard path component.",
     "Naming collision with standard query component.",
     "Invalid vendor-specific component name: expected '1*pk11-v-attr-nm-char'."}

ValueViolations ==
    {SpaceViolation, HashViolation, SlashViolation, TypeViolation,
     LibraryVersionViolation, SlotIdViolation}

\* the attribute a name of its own component stands for
AttrOf(component, name) ==
    IF name \in ComponentNames(component) THEN StdAttr(name) ELSE VAttr(name)

\* the fragment has a name of its component and a value its rule refuses
ValueRefused(component, attr) ==
    /\ OwnAttr(component, attr)
    /\ ~Validate(component, AttrOf(component, NameOf(attr)), ValueOf(attr)).ok

\* fragment number j repeats a name that may be given once
Repeats(j) ==
    /\ OwnAttr(examined[j].component, examined[j].attr)
    /\ examined[j].component = "path"
           \/ NameOf(examined[j].attr) \in QueryNames
    /\ \E i \in 1..(j - 1) :
           /\ examined[i].component = examined[j].component
           /\ HasEq(examined[i].attr)
           /\ NameOf(examined[i].attr) = NameOf(examined[j].attr)

\* C22: the checks of one fragment run in the order '=', name, value,
\* duplicate, and the violation reported is that of the first that fails: a
\* fragment without '=' is malformed whatever else it holds; with '=' and a
\* name that is not one of its component, the name's violation is reported
\* whatever the value; with a refused value, the value's violation is
\* reported also when the name was given before; the duplicate violation is
\* reported only for a fragment whose name and value are fine.
C22_CheckOrder ==
    (Done /\ Failed /\ examined # <<>> /\ ~Last(examined).ok
          /\ tidy(Last(examined).attr) # "") =>
        LET e == Last(examined)
        IN  /\ ~HasEq(e.attr) => result.violation = MalformedViolation
            /\ (HasEq(e.attr) /\ ~OwnAttr(e.component, e.attr)) =>
                   result.violation \in NameViolations
            /\ ValueRefused(e.component, e.attr) =>
                   result.violation \in ValueViolations
            /\ (OwnAttr(e.component, e.attr)
                    /\ ~ValueRefused(e.component, e.attr)) =>
                   /\ Repeats(Len(examined))
                   /\ result.violation =
                          DuplicateViolation(e.component,
                              AttrOf(e.component, NameOf(e.attr)))

\* a fragment that repeats the name token with a value that holds a space
\* was reported for its value
C22_Witness ==
    /\ Done /\ Failed
    /\ examined # <<>>
    /\ HasEq(Last(examined).attr)
    /\ Repeats(Len(examined))
    /\ ValueRefused("path", Last(examined).attr)
    /\ NameOf(Last(examined).attr) = "token"
    /\ result.violation = SpaceViolation

\* the fragments of a component that were accepted so far, in order
AcceptedIn(component) ==
    SelectSeq(examined, LAMBDA e : e.ok /\ e.component = component)

\* the fragments examined so far that carry the name
Carrying(component, name) ==
    {i \in 1..Len(examined) :
        /\ examined[i].component = component
        /\ HasEq(examined[i].attr)
        /\ NameOf(examined[i].attr) = name}

IsPrefix(s, t) == Len(s) <= Len(t) /\ SubSeq(t, 1, Len(s)) = s

\* after the fragments examined so far: a standard slot is empty, or holds
\* the value of the first fragment that carried its name; a vendor list is
\* the path's accepted value, at most one, then the query's accepted values
MappingOfPrefix ==
    mapping # None =>
        /\ \A n \in PathNames \cup QueryNames :
               LET component == IF n \in PathNames THEN "path" ELSE "query"
                   given     == Carrying(component, n)
               IN  IF mapping.std[n] = None
                   THEN \A i \in given : ~examined[i].ok
                   ELSE /\ given # {}
                        /\ examined[SetMin(given)].ok
                        /\ mapping.std[n] =
                               Some(ValueOf(examined[SetMin(given)].attr))
        /\ \A name \in DOMAIN mapping.vendor :
               /\ Len(ValuesOf(AcceptedIn("path"), name)) <= 1
               /\ mapping.vendor[name] =
                      ValuesOf(AcceptedIn("path"), name)
                          \o ValuesOf(AcceptedIn("query"), name)
               /\ mapping.vendor[name] # <<>>

\* a step of the call: what the mapping holds is kept, a list only grows at
\* its end, and a fragment that fails adds nothing
MappingStep ==
    (mapping # None /\ mapping' # None) =>
        /\ \A n \in PathNames \cup QueryNames :
               mapping.std[n] # None => mapping'.std[n] = mapping.std[n]
        /\ \A name \in DOMAIN mapping.vendor :
               /\ name \in DOMAIN mapping'.vendor
               /\ IsPrefix(mapping.vendor[name], mapping'.vendor[name])
        /\ (Len(examined') > Len(examined) /\ ~Last(examined').ok) =>
               mapping' = mapping
        /\ Len(examined') = Len(examined) => mapping' = mapping

\* C23: while fragments are processed, after any prefix of them, each
\* standard slot is empty or holds the value of the first fragment that
\* carried its name, and is never overwritten afterwards; each vendor list
\* holds at most one value from the path, before every value from the
\* query; and a fragment that fails adds nothing to the mapping.
C23_MappingInvariant == [][MappingStep]_vars /\ []MappingOfPrefix

\* a vendor list of one path value and two query values, and a standard
\* slot that was filled, when a later fragment has failed
C23_Witness ==
    /\ Done /\ Failed
    /\ mapping # None
    /\ "v" \in DOMAIN mapping.vendor
    /\ mapping.vendor["v"] = <<"1", "2", "3">>
    /\ ~Last(examined).ok
    /\ Last(examined).attr = "v"

\* ALPHA / DIGIT / "-" / "_", the characters of pk11-v-attr-nm-char
AsciiNameChars ==
    CharSet("abcdefghijklmnopqrstuvwxyzABCDEFGHIJKLMNOPQRSTUVWXYZ0123456789-_")

\* C24: a fragment whose trimmed name is in neither standard vocabulary is
\* taken as a vendor attribute exactly when the name is not empty and every
\* character of it is alphanumeric, '-' or '_'; an empty name fails with
\* "Missing attribute name" and a name with any other character fails with
\* the vendor-name grammar violation.
C24_VendorNameRule ==
    \A i \in 1..Len(examined) :
        LET e    == examined[i]
            name == NameOf(e.attr)
        IN  (HasEq(e.attr) /\ name \notin PathNames \cup QueryNames) =>
                IF name = ""
                THEN /\ ~e.ok
                     /\ Done /\ Failed
                     /\ result.violation =
                            "Invalid component: Missing attribute name."
                ELSE IF AllCharsIn(name, AsciiNameChars)
                THEN e.ok \/ (Done /\ Failed
                                  /\ result.violation \notin NameViolations)
                ELSE /\ ~e.ok
                     /\ Done /\ Failed
                     /\ result.violation =
                            "Invalid vendor-specific component name: expected '1*pk11-v-attr-nm-char'."

\* C25: a fragment whose tidied text is not empty and holds no '=' fails
\* with "Malformed component.", in the path and in the query alike, and the
\* error's span covers that fragment: it starts at the fragment's place in
\* the tidied input and has the length of its tidied text.
C25_MalformedFragment ==
    (Done /\ examined # <<>> /\ ~Last(examined).ok
          /\ tidy(Last(examined).attr) # "" /\ ~HasEq(Last(examined).attr)) =>
        LET e     == Last(examined)
            place == PlaceOf(pk11_uri, e.component, e.count)
        IN  /\ Failed
            /\ result.violation = MalformedViolation
            /\ result.error_span = <<place, place + Len(tidy(e.attr))>>

RECURSIVE Encoded(_, _, _)
\* the value with each character `ch` written as `code`
Encoded(value, ch, code) ==
    IF value = "" THEN ""
    ELSE (IF CharAt(value, 1) = ch THEN code ELSE SubSeq(value, 1, 1))
             \o Encoded(SubSeq(value, 2, Len(value)), ch, code)

Suggests(value, ch, code) ==
    "Replace '" \o value \o "' with '" \o Encoded(value, ch, code) \o "'."

\* the path attributes that have a rule of their own
OwnRuled(component, attr) ==
    /\ component = "path"
    /\ OwnAttr("path", attr)
    /\ NameOf(attr) \in {"type", "library-version", "slot-id"}

OwnViolation(name) ==
    IF name = "type" THEN TypeViolation
    ELSE IF name = "library-version" THEN LibraryVersionViolation
    ELSE SlotIdViolation

\* C26 as stated: whatever the attribute, type, library-version and slot-id
\* included, a value with a literal space is reported with the space
\* violation and a help text that suggests %20 for each space, and a value
\* with a literal '#' with the '#' violation and a help text that suggests
\* %23.
C26_CommonRuleEveryKind ==
    \A i \in 1..Len(examined) :
        LET e     == examined[i]
            value == ValueOf(e.attr)
        IN  OwnAttr(e.component, e.attr) =>
                /\ Contains(value, " ") =>
                       /\ ~e.ok /\ Done /\ Failed
                       /\ result.violation = SpaceViolation
                       /\ result.help = Suggests(value, " ", "%20")
                /\ Contains(value, "#") =>
                       /\ ~e.ok /\ Done /\ Failed
                       /\ result.violation = HashViolation
                       /\ result.help = Suggests(value, "#", "%23")

\* C26 as amended: for every attribute but the path's type, library-version
\* and slot-id, a value with a literal space is reported with the space
\* violation and a help text that suggests %20 for each space, and a value
\* with a literal '#' and no space with the '#' violation and a help text
\* that suggests %23; a type, library-version or slot-id whose value has a
\* space or a '#' fails with the violation of its own rule.
C26_CommonRuleScope ==
    \A i \in 1..Len(examined) :
        LET e     == examined[i]
            value == ValueOf(e.attr)
        IN  OwnAttr(e.component, e.attr) =>
                /\ (~OwnRuled(e.component, e.attr) /\ Contains(value, " ")) =>
                       /\ ~e.ok /\ Done /\ Failed
                       /\ result.violation = SpaceViolation
                       /\ result.help = Suggests(value, " ", "%20")
                /\ (~OwnRuled(e.component, e.attr) /\ ~Contains(value, " ")
                        /\ Contains(value, "#")) =>
                       /\ ~e.ok /\ Done /\ Failed
                       /\ result.violation = HashViolation
                       /\ result.help = Suggests(value, "#", "%23")
                /\ (OwnRuled(e.component, e.attr)
                        /\ (Contains(value, " ") \/ Contains(value, "#"))) =>
                       /\ ~e.ok /\ Done /\ Failed
                       /\ result.violation = OwnViolation(NameOf(e.attr))

\* a library-version with a space in its value was refused by its own rule
C26_Witness ==
    /\ Done /\ Failed
    /\ examined # <<>>
    /\ OwnRuled("path", Last(examined).attr)
    /\ NameOf(Last(examined).attr) = "library-version"
    /\ Contains(ValueOf(Last(examined).attr), " ")
    /\ result.violation = LibraryVersionViolation

\* the error was printed
Printed == pc = "printed" /\ result.kind = "Err" /\ stdout # <<>>

\* the rendering with a given number of carets
Rendered(carets) ==
    result.pk11_uri \o "\n" \o Repeat(" ", result.error_span[1])
        \o Repeat("^", carets) \o " " \o result.violation
        \o "\n\nhelp: " \o result.help

\* C27 as stated: the rendered form of every error is the tidied input, a
\* line break, exactly `start` spaces, exactly `end - start` carets, a
\* space, the violation, a blank line, "help: " and the help text, also for
\* the zero-length spans of the scheme and the misplaced-delimiter errors.
C27_CaretsAreSpanLength ==
    Printed =>
        Last(stdout) = Rendered(result.error_span[2] - result.error_span[1])

\* C27 as amended: the same, with one caret for a span of length zero.
C27_AtLeastOneCaret ==
    Printed =>
        Last(stdout) =
            Rendered(IF result.error_span[2] = result.error_span[1] THEN 1
                     ELSE result.error_span[2] - result.error_span[1])

\* the error of a trailing ';' was printed with one caret, under the ';'
C27_Witness ==
    /\ Printed
    /\ pk11_uri = "pkcs11:token=a;"
    /\ result.error_span = <<14, 14>>
    /\ Last(stdout) =
           "pkcs11:token=a;\n              ^ Misplaced path delimiter.\n\nhelp: Remove the misplaced ';' delimiter."

\* C28: for every error parse returns, 0 <= start <= end <= the length of
\* the error's tidied input; start >= 7 when the error was raised on a path
\* fragment; and start is greater than the index of the first '?' of the
\* tidied input when it was raised on a query fragment.
C28_SpanWithinComponent ==
    (Done /\ Failed) =>
        LET start == result.error_span[1]
            end   == result.error_span[2]
        IN  /\ 0 <= start /\ start <= end /\ end <= Len(result.pk11_uri)
            /\ (examined # <<>> /\ Last(examined).component = "path") =>
                   start >= PKCS11_SCHEME_LEN
            /\ (examined # <<>> /\ Last(examined).component = "query") =>
                   start > Unwrap(Find(result.pk11_uri, "?"))

\* C29: an attribute given with nothing, or only white space, after its
\* '=' is recorded as present with the empty string, which is not the
\* absent value, for every kind but type, library-version and slot-id (whose
\* rules refuse the empty value); the occurrence counts for the duplicate
\* check, so a later fragment of that name in the path, or of that standard
\* name in the query, fails as a duplicate.
C29_EmptyValueIsPresent ==
    \A i \in 1..Len(examined) :
        LET e    == examined[i]
            name == NameOf(e.attr)
            attr == AttrOf(e.component, name)
            once == e.component = "path" \/ ~attr.vattr
        IN  (OwnAttr(e.component, e.attr) /\ ValueOf(e.attr) = "") =>
                IF OwnRuled(e.component, e.attr)
                THEN /\ ~e.ok /\ Done /\ Failed
                     /\ result.violation = OwnViolation(name)
                ELSE /\ (~once \/ \A k \in Carrying(e.component, name) : k >= i) =>
                            /\ e.ok
                            /\ Some("") # None
                            /\ IF attr.vattr
                               THEN /\ name \in DOMAIN mapping.vendor
                                    /\ \E k \in 1..Len(mapping.vendor[name]) :
                                           mapping.vendor[name][k] = ""
                               ELSE mapping.std[name] = Some("")
                            /\ (result.kind = "Ok" /\ ~attr.vattr) =>
                                   result.mapping.std[name] = Some("")
                     /\ (e.ok /\ once) =>
                            \A j \in Carrying(e.component, name) :
                                j > i => /\ ~examined[j].ok
                                         /\ Done /\ Failed
                                         /\ result.violation =
                                                DuplicateViolation(e.component, attr)

\* parse("pkcs11:serial=;serial=x") has failed as a duplicate, the slot
\* holding the empty string
C29_Witness ==
    /\ Done /\ Failed
    /\ pk11_uri = "pkcs11:serial=;serial=x"
    /\ Len(examined) = 2
    /\ mapping.std["serial"] = Some("")
    /\ result.violation = "Duplicate 'pk11-pattr' standard name: \"serial\"."

\* the indices of a character in a text, counted from 1
IndicesOf(text, ch) == {i \in 1..Len(text) : CharAt(text, i) = ch}

\* the text between the scheme and the first '?', and the text after it
PathText(uri) ==
    IF IndicesOf(uri, "?") = {} THEN SubSeq(uri, 8, Len(uri))
    ELSE SubSeq(uri, 8, SetMin(IndicesOf(uri, "?")) - 1)

QueryText(uri) ==
    IF IndicesOf(uri, "?") = {} THEN ""
    ELSE SubSeq(uri, SetMin(IndicesOf(uri, "?")) + 1, Len(uri))

\* as many fragments as delimiters and one more; none in an empty text
FragmentsIn(text, d) ==
    IF text = "" THEN 0 ELSE 1 + Cardinality(IndicesOf(text, d))

\* the name and the value of a fragment cut at its first '='
NameAtFirstEq(attr) == Trim(SubSeq(attr, 1, SetMin(IndicesOf(attr, "=")) - 1))

ValueAtFirstEq(attr) ==
    Trim(SubSeq(attr, SetMin(IndicesOf(attr, "=")) + 1, Len(attr)))

Trimmed(text) ==
    text = "" \/ (CharAt(text, 1) \notin WhiteSpace
                    /\ CharAt(text, Len(text)) \notin WhiteSpace)

\* C30: only the first '?' of the input separates path from query, only ';'
\* separates path fragments and only '&' query fragments, and a fragment is
\* cut into name and value at its first '=', both trimmed: a fragment whose
\* name and value, so cut, are fine, is accepted (or refused as a duplicate),
\* and what is recorded is that value, with the '=', '&', ';' and '?' it may
\* hold; a call that succeeds has examined as many fragments as the
\* delimiters of each component make, and no more.
C30_SplitByFirstOccurrence ==
    StartsWith(pk11_uri, PKCS11_SCHEME) =>
        /\ \A i \in 1..Len(examined) :
               LET e == examined[i]
               IN  /\ IndicesOf(e.attr,
                          IF e.component = "path" THEN ";" ELSE "&") = {}
                   /\ e.component = "path" => IndicesOf(e.attr, "?") = {}
                   /\ IndicesOf(e.attr, "=") # {} =>
                          LET name  == NameAtFirstEq(e.attr)
                              value == ValueAtFirstEq(e.attr)
                              attr  == AttrOf(e.component, name)
                              fine  ==
                                  /\ name \in ComponentNames(e.component)
                                         \/ VendorName(name)
                                  /\ Validate(e.component, attr, value).ok
                          IN  /\ Trimmed(name) /\ Trimmed(value)
                              /\ e.ok => fine
                              /\ fine =>
                                     \/ /\ e.ok
                                        /\ IF attr.vattr
                                           THEN \E k \in 1..Len(mapping.vendor[name]) :
                                                    mapping.vendor[name][k] = value
                                           ELSE mapping.std[name] = Some(value)
                                     \/ /\ ~e.ok /\ Done /\ Failed
                                        /\ result.violation =
                                               DuplicateViolation(e.component, attr)
        /\ result.kind = "Ok" =>
               /\ Len(AcceptedIn("path")) = FragmentsIn(PathText(pk11_uri), ";")
               /\ Len(AcceptedIn("query")) = FragmentsIn(QueryText(pk11_uri), "&")
               /\ Join([i \in 1..Len(AcceptedIn("path")) |->
                           AcceptedIn("path")[i].attr], ";") = PathText(pk11_uri)
               /\ Join([i \in 1..Len(AcceptedIn("query")) |->
                           AcceptedIn("query")[i].attr], "&") = QueryText(pk11_uri)

\* a call has succeeded whose path values hold '=' and '&' and whose query
\* values hold ';', '=' and '?', and each is returned whole
C30_Witness ==
    /\ result.kind = "Ok"
    /\ pk11_uri = "pkcs11:token=a=b;v =&object=c?pin-value=;token=c&v= =;?"
    /\ result.mapping.std["token"] = Some("a=b")
    /\ result.mapping.std["object"] = None
    /\ result.mapping.std["pin-value"] = Some(";token=c")
    /\ result.mapping.vendor["v"] = <<"&object=c", "=;?">>

====
